---- MODULE Spec2Model ----
(***************************************************************************)
(* Model of the mHC visualizer's numeric engine:                           *)
(*   lib/sinkhorn.ts   (mulberry32, normalRandom, eye, randomMatrix,       *)
(*                      matmul, matrixMax, sinkhornKnopp)                  *)
(*   lib/metrics.ts    (forwardGain, backwardGain, rowSumMaxDev,           *)
(*                      colSumMaxDev, minEntry, computeAllMetrics)         *)
(*   lib/simulation.ts (generateResidualMatrix, simulateDepth,             *)
(*                      runComparison, getSampleMatrix)                    *)
(*                                                                         *)
(* Numbers.  A JavaScript number is modelled as a fixed-point integer in   *)
(* units of 1/ONE (ONE = 2^22): addition, comparison, abs and max are      *)
(* exact, multiplication and division round toward zero, Math.exp is a     *)
(* fixed-point table product that underflows to 0 below exp(-16), as       *)
(* binary64 does below exp(-745).  NaN is the one non-number kept, because *)
(* 0/0 produces it.  The 32-bit integer arithmetic of mulberry32 is exact: *)
(* a 32-bit word is the pair <<high 16 bits, low 16 bits>>.                *)
(***************************************************************************)
EXTENDS Integers, Sequences, FiniteSets, TLC

(***************************************************************************)
(* Bounds of the model.                                                    *)
(***************************************************************************)
MaxDepth == 3
MaxN == 2
MaxSinkhornIters == 2
MaxCalls == 2
MaxDraws == 2
MaxSkN == 3
MaxDim == 2
MaxApiDepth == 2
MaxApiDraws == 6
LargeK == 200

Seeds == {0, 42}

(***************************************************************************)
(* Fixed-point numbers.                                                    *)
(***************************************************************************)
ONE == 2^22
HalfBits == 2^11
NaN == 0 - 2^30

Abs(x) == IF x < 0 THEN 0 - x ELSE x

\* <<F(1), ..., F(n)>> and the n x m matrix of F(i, j), built element by element
RECURSIVE TabFrom(_, _, _)
TabFrom(F(_), k, n) == IF k > n THEN <<>> ELSE <<F(k)>> \o TabFrom(F, k + 1, n)

Tab(n, F(_)) == TabFrom(F, 1, n)

Mat(n, m, F(_, _)) == Tab(n, LAMBDA i : Tab(m, LAMBDA j : F(i, j)))

Max2(a, b) == IF a >= b THEN a ELSE b

Sign(x) == IF x < 0 THEN 0 - 1 ELSE 1

\* |x| * |y| / ONE rounded toward zero, without forming the 64-bit product.
MulMag(x, y) ==
  LET xh == x \div HalfBits
      xl == x % HalfBits
      yh == y \div HalfBits
      yl == y % HalfBits
  IN  xh * yh + ((xh * yl + xl * yh + ((xl * yl) \div HalfBits)) \div HalfBits)

\* a * b of two numbers (sinkhorn.ts:70, the product inside matmul).
FMul(x, y) == Sign(x) * Sign(y) * MulMag(Abs(x), Abs(y))

\* floor(r * 2^bits / d) for 0 <= r < d, by binary long division.
RECURSIVE LongDivFrac(_, _, _)
LongDivFrac(r, d, bits) ==
  IF bits = 0 THEN 0
  ELSE CHOOSE v \in {(IF 2 * r >= d THEN 2^(bits - 1) ELSE 0)
                       + LongDivFrac(rest, d, bits - 1) :
                     rest \in {IF 2 * r >= d THEN 2 * r - d ELSE 2 * r}} : TRUE

\* x / d for x >= 0 and d > 0, both in units of 1/ONE.
DivMag(x, d) ==
  CHOOSE v \in {(a \div b) * ONE + LongDivFrac(a % b, b, 22) :
                  a \in {x}, b \in {d}} : TRUE

(***************************************************************************)
(* 32-bit words for mulberry32: <<hi, lo>>, each half in 0..65535.         *)
(***************************************************************************)
W16 == 2^16

RECURSIVE Xor16(_, _, _)
Xor16(a, b, bits) ==
  IF bits = 0 THEN 0
  ELSE ((a + b) % 2) + 2 * Xor16(a \div 2, b \div 2, bits - 1)

RECURSIVE Or16(_, _, _)
Or16(a, b, bits) ==
  IF bits = 0 THEN 0
  ELSE (IF a % 2 = 1 \/ b % 2 = 1 THEN 1 ELSE 0)
       + 2 * Or16(a \div 2, b \div 2, bits - 1)

WXor(x, y) == <<Xor16(x[1], y[1], 16), Xor16(x[2], y[2], 16)>>

\* t | c for a constant c below 2^16
WOrLow(x, c) == <<x[1], Or16(x[2], c, 16)>>

\* t >>> s for 0 < s < 16
WShr(x, s) ==
  <<x[1] \div 2^s, (x[1] % 2^s) * 2^(16 - s) + (x[2] \div 2^s)>>

WAdd(x, y) ==
  LET lo == x[2] + y[2]
  IN  <<(x[1] + y[1] + (lo \div W16)) % W16, lo % W16>>

\* Math.imul: the low 32 bits of the product, by byte columns.
Imul(x, y) ==
  LET a0 == x[2] % 256
      a1 == x[2] \div 256
      a2 == x[1] % 256
      a3 == x[1] \div 256
      b0 == y[2] % 256
      b1 == y[2] \div 256
      b2 == y[1] % 256
      b3 == y[1] \div 256
      c0 == a0 * b0
      c1 == a0 * b1 + a1 * b0 + (c0 \div 256)
      c2 == a0 * b2 + a1 * b1 + a2 * b0 + (c1 \div 256)
      c3 == a0 * b3 + a1 * b2 + a2 * b1 + a3 * b0 + (c2 \div 256)
  IN  <<(c3 % 256) * 256 + (c2 % 256), (c1 % 256) * 256 + (c0 % 256)>>

\* 0x6d2b79f5
Increment == <<27947, 31221>>

\* mulberry32(seed): the closure's captured state and, for the model only, the
\* number of calls made on it.
mulberry32(seed) == [seed |-> <<(seed \div W16) % W16, seed % W16>>, calls |-> 0]

\* the value of a word as the signed 32-bit integer the bitwise operators
\* return: <<high, low>> with high in -2^15 .. 2^15 - 1
Int32(w) == <<IF w[1] >= W16 \div 2 THEN w[1] - W16 ELSE w[1], w[2]>>

\* x >>> 0: the same bits as an unsigned 32-bit integer
Uint32(x) == <<x[1] % W16, x[2]>>

MixOutSigned(s, calls, t) ==
  [u |-> Int32(WXor(t, WShr(t, 14))), g |-> [seed |-> s, calls |-> calls + 1]]

\* return ((t ^ (t >>> 14)) >>> 0) / 4294967296: the uniform value is u / 2^32
MixOut(s, calls, t) ==
  [u |-> Uint32(Int32(WXor(t, WShr(t, 14)))),
   g |-> [seed |-> s, calls |-> calls + 1]]

\* t ^= t + Math.imul(t ^ (t >>> 7), t | 61)
MixSecond(s, calls, t) ==
  MixOut(s, calls, WXor(t, WAdd(t, Imul(WXor(t, WShr(t, 7)), WOrLow(t, 61)))))

\* t = Math.imul(t ^ (t >>> 15), t | 1), with t = the advanced seed s
MixFirst(s, calls) == MixSecond(s, calls, Imul(WXor(s, WShr(s, 15)), WOrLow(s, 1)))

\* One call of the closure: seed += 0x6d2b79f5, then the mixing of its low 32 bits.
rngCall(g) == MixFirst(WAdd(g.seed, Increment), g.calls)

(***************************************************************************)
(* NaN-aware arithmetic: every operation on NaN yields NaN, every          *)
(* comparison with NaN is false.  NegInfinity is the start value of the    *)
(* max folds (matrixMax, Math.max of an empty list).                       *)
(***************************************************************************)
NegInfinity == 1 - 2^30
Infinity == 2^30

IsNaN(x) == x = NaN

NAdd(a, b) == IF IsNaN(a) \/ IsNaN(b) THEN NaN ELSE a + b

NSub(a, b) == IF IsNaN(a) \/ IsNaN(b) THEN NaN ELSE a - b

NMul(a, b) == IF IsNaN(a) \/ IsNaN(b) THEN NaN ELSE FMul(a, b)

NAbs(a) == IF IsNaN(a) THEN NaN ELSE Abs(a)

\* a > b as JavaScript evaluates it
NGt(a, b) == ~IsNaN(a) /\ ~IsNaN(b) /\ a > b

RECURSIVE SumSeq(_, _)
\* xs.reduce((a, b) => a + b, 0), left to right from index k
SumSeq(xs, k) == IF k > Len(xs) THEN 0 ELSE NAdd(xs[k], SumSeq(xs, k + 1))

RECURSIVE MaxSeq(_, _, _)
\* Math.max(...xs): NaN if any argument is NaN, -Infinity for no argument
MaxSeq(xs, k, acc) ==
  IF k > Len(xs) THEN acc
  ELSE IF IsNaN(xs[k]) \/ IsNaN(acc) THEN NaN
  ELSE MaxSeq(xs, k + 1, Max2(acc, xs[k]))

(***************************************************************************)
(* Math.exp on arguments <= 0: the product of the table entries            *)
(* exp(-2^j / ONE) over the set bits j of the magnitude; 0 from 16 on.     *)
(***************************************************************************)
ExpTable ==
  <<4194303, 4194302, 4194300, 4194296, 4194288, 4194272, 4194240, 4194176,
    4194048, 4193792, 4193280, 4192256, 4190210, 4186120, 4177952, 4161664,
    4129277, 4065259, 3940184, 3701460, 3266527, 2543974, 1542998, 567637,
    76821, 1407>>

RECURSIVE ExpBits(_, _, _)
ExpBits(m, j, acc) ==
  IF m = 0 \/ acc = 0 THEN acc
  ELSE ExpBits(m \div 2, j + 1, IF m % 2 = 1 THEN MulMag(acc, ExpTable[j]) ELSE acc)

\* Math.exp(x) for x <= 0
FExp(x) ==
  IF IsNaN(x) THEN NaN
  ELSE IF 0 - x >= 2^26 THEN 0
  ELSE ExpBits(0 - x, 1, ONE)

(***************************************************************************)
(* normalRandom: Box-Muller, cosine branch.  The two uniform draws are     *)
(* read to their top 4 bits; sqrt(-2 ln u1) and cos(2 pi u2) are tabulated *)
(* at the midpoints of the 16 intervals.                                   *)
(***************************************************************************)
RadiusTable ==
  <<11042633, 9126103, 8081626, 7312600, 6680702, 6129543, 5629708, 5163206,
    4717511, 4282698, 3849692, 3408716, 2947137, 2444952, 1861062, 1056910>>

CosTable ==
  <<4113712, 3487436, 2330230, 818268, 0 - 818268, 0 - 2330230, 0 - 3487436,
    0 - 4113712, 0 - 4113712, 0 - 3487436, 0 - 2330230, 0 - 818268, 818268,
    2330230, 3487436, 4113712>>

TopBits(u) == u[1] \div 4096

\* Math.sqrt(-2 * Math.log(u1)) * Math.cos(2 * Math.PI * u2); Math.log of a
\* negative number is NaN, and the cosine has period 1 in u2
BoxMuller(u1, u2) ==
  IF TopBits(u1) \notin 0..15 THEN NaN
  ELSE FMul(RadiusTable[TopBits(u1) + 1], CosTable[(TopBits(u2) % 16) + 1])

\* with u1 drawn, draw u2 and combine
NormalSecond(u1, r2) == [val |-> BoxMuller(u1, r2.u), g |-> r2.g]

NormalFirst(r1) == NormalSecond(r1.u, rngCall(r1.g))

normalRandom(g) == NormalFirst(rngCall(g))

(***************************************************************************)
(* Matrices: a sequence of rows, each a sequence of numbers (1-based).     *)
(***************************************************************************)
eyeUpper(n) == Mat(n, n, LAMBDA i, j : IF i <= j THEN ONE ELSE 0)

eye(n) == Mat(n, n, LAMBDA i, j : IF i = j THEN ONE ELSE 0)

RECURSIVE randomCells(_, _, _)
RECURSIVE AppendCell(_, _, _)
\* count further normalRandom(rng) values after vals, in call order
randomCells(count, g, vals) ==
  IF count = 0 THEN [vals |-> vals, g |-> g]
  ELSE AppendCell(count, normalRandom(g), vals)

AppendCell(count, r, vals) == randomCells(count - 1, r.g, Append(vals, r.val))

ColumnMajor(n, c) ==
  [M |-> Mat(n, n, LAMBDA i, j : c.vals[(j - 1) * n + i]), g |-> c.g]

\* the outer map fills rows in order, the inner map the columns of that row
RowMajor(n, c) == [M |-> Mat(n, n, LAMBDA i, j : c.vals[(i - 1) * n + j]), g |-> c.g]

\* randomMatrix(n, rng): the outer map runs over rows, the inner over columns
randomMatrix(n, g) == RowMajor(n, randomCells(n * n, g, <<>>))

\* A[i][l]: reading past the end of a row yields undefined, which is NaN in
\* arithmetic
Cell(A, i, l) == IF i \in DOMAIN A /\ l \in DOMAIN A[i] THEN A[i][l] ELSE NaN

RECURSIVE DotFrom(_, _, _, _, _)
DotFrom(A, B, i, j, l) ==
  IF l > Len(B) THEN 0
  ELSE LET rest == DotFrom(A, B, i, j, l + 1)
       IN  NAdd(NMul(Cell(A, i, l), Cell(B, l, j)), rest)

matmulEntrywise(A, B) ==
  Mat(Len(A), Len(B[1]), LAMBDA i, j : NMul(Cell(A, i, j), Cell(B, i, j)))

matmul(A, B) ==
  LET n == Len(A)
      m == Len(B[1])
  IN  Mat(n, m, LAMBDA i, j : DotFrom(A, B, i, j, 1))

(***************************************************************************)
(* sinkhornKnopp.                                                          *)
(*                                                                         *)
(* eps = 1e-8 is smaller than one unit of the fixed-point format, so a     *)
(* divisor is kept as the exact fraction <<num, den>> of a unit: a sum s   *)
(* is <<s, 1>>, eps is <<ONE, EpsInv>>.                                    *)
(***************************************************************************)
EpsInv == 10^8
Eps == <<ONE, EpsInv>>
NaNDivisor == <<NaN, 1>>

\* whether the sum s (whole units) is >= eps: s * EpsInv >= ONE
GeEps(s) == s >= (ONE + EpsInv - 1) \div EpsInv

RECURSIVE MaxFrom(_, _, _)
MaxFrom(xs, k, acc) ==
  IF k > Len(xs) THEN acc
  ELSE MaxFrom(xs, k + 1, IF NGt(xs[k], acc) THEN xs[k] ELSE acc)

RECURSIVE matrixMaxFrom(_, _, _)
matrixMaxFrom(matrix, i, acc) ==
  IF i > Len(matrix) THEN acc
  ELSE matrixMaxFrom(matrix, i + 1, MaxFrom(matrix[i], 1, acc))

matrixMaxFromZero(matrix) == matrixMaxFrom(matrix, 1, 0)

matrixMax(matrix) == matrixMaxFrom(matrix, 1, NegInfinity)

\* matrix.map(row => row.map(val => Math.exp(val - maxVal)))
Exponentiate(matrix) ==
  LET maxVal == matrixMax(matrix)
  IN  Tab(Len(matrix), LAMBDA i :
        Tab(Len(matrix[i]), LAMBDA j : FExp(NSub(matrix[i][j], maxVal))))

DivisorNoFloor(s) == IF IsNaN(s) THEN NaNDivisor ELSE <<s, 1>>

\* max(sum, eps)
Divisor(s) ==
  IF IsNaN(s) THEN NaNDivisor
  ELSE IF GeEps(s) THEN <<s, 1>>
  ELSE Eps

\* x / d for a divisor d as above
QDiv(x, d) ==
  IF IsNaN(x) \/ IsNaN(d[1]) THEN NaN
  ELSE IF d[1] = 0 THEN (IF x = 0 THEN NaN ELSE Sign(x) * Infinity)
  ELSE IF d[2] = 1 THEN Sign(x) * Sign(d[1]) * DivMag(Abs(x), Abs(d[1]))
  ELSE (x * d[2]) \div (d[1] \div ONE)

Column(P, j) == Tab(Len(P), LAMBDA i : P[i][j])

RowDivisors(P) == Tab(Len(P), LAMBDA i : Divisor(SumSeq(P[i], 1)))

ColDivisors(P) == Tab(Len(P), LAMBDA j : Divisor(SumSeq(Column(P, j), 1)))

\* lines 112-118: every row divided by max(rowSum, eps)
RowNormalize(P) ==
  LET d == RowDivisors(P)
  IN  Mat(Len(P), Len(P), LAMBDA i, j : QDiv(P[i][j], d[i]))

\* lines 121-130: every column divided by max(colSum, eps)
ColNormalize(P) ==
  LET d == ColDivisors(P)
  IN  Mat(Len(P), Len(P), LAMBDA i, j : QDiv(P[i][j], d[j]))

\* one pass of the for loop: rows, then columns
SinkhornRoundSkipped(P) == P

SinkhornRound(P) == ColNormalize(RowNormalize(P))

RECURSIVE SinkhornLoop(_, _)
SinkhornLoop(P, iterations) ==
  IF iterations <= 0 THEN P ELSE SinkhornLoop(SinkhornRound(P), iterations - 1)

sinkhornKnopp(matrix, iterations) == SinkhornLoop(Exponentiate(matrix), iterations)

(***************************************************************************)
(* Metrics that are sums, maxima and minima of entries.  spectralNorm, the *)
(* eigenvalue magnitudes and distanceFromUniform are further pure          *)
(* functions of the same matrix.                                           *)
(***************************************************************************)
RowSums(matrix) == Tab(Len(matrix), LAMBDA i : SumSeq(matrix[i], 1))

ColSums(matrix) == Tab(Len(matrix), LAMBDA j : SumSeq(Column(matrix, j), 1))

forwardGain(matrix) ==
  LET s == RowSums(matrix)
  IN  MaxSeq(Tab(Len(s), LAMBDA i : NAbs(s[i])), 1, NegInfinity)

backwardGain(matrix) ==
  LET s == ColSums(matrix)
  IN  MaxSeq(Tab(Len(s), LAMBDA j : NAbs(s[j])), 1, NegInfinity)

rowSumMaxDev(matrix) ==
  LET s == RowSums(matrix)
  IN  MaxSeq(Tab(Len(s), LAMBDA i : NAbs(NSub(s[i], ONE))), 1, NegInfinity)

colSumMaxDev(matrix) ==
  LET s == ColSums(matrix)
  IN  MaxSeq(Tab(Len(s), LAMBDA j : NAbs(NSub(s[j], ONE))), 1, NegInfinity)

RECURSIVE MinFrom(_, _, _)
MinFrom(xs, k, acc) ==
  IF k > Len(xs) THEN acc
  ELSE MinFrom(xs, k + 1, IF ~IsNaN(xs[k]) /\ xs[k] < acc THEN xs[k] ELSE acc)

RECURSIVE minEntryFrom(_, _, _)
minEntryFrom(matrix, i, acc) ==
  IF i > Len(matrix) THEN acc
  ELSE minEntryFrom(matrix, i + 1, MinFrom(matrix[i], 1, acc))

minEntry(matrix) == minEntryFrom(matrix, 1, Infinity)

computeAllMetrics(matrix) ==
  [forwardGain  |-> forwardGain(matrix),
   backwardGain |-> backwardGain(matrix),
   rowSumMaxDev |-> rowSumMaxDev(matrix),
   colSumMaxDev |-> colSumMaxDev(matrix),
   minEntry     |-> minEntry(matrix)]

(***************************************************************************)
(* simulation.ts                                                           *)
(***************************************************************************)
Methods == {"baseline", "hc", "mhc"}

None == <<>>

\* generateResidualMatrix(n, method, sinkhornIters, rng).  Beside the returned
\* matrix H and the generator after the call, the model records the random
\* matrix M drawn (None when none was) and the iteration arguments of the
\* sinkhornKnopp calls made.
FromRandomRedrawn(sinkhornIters, r2) ==
  IF sinkhornIters = 0
  THEN [H |-> r2.M, g |-> r2.g, M |-> r2.M, sk |-> <<>>]
  ELSE [H |-> sinkhornKnopp(r2.M, sinkhornIters), g |-> r2.g,
        M |-> r2.M, sk |-> <<sinkhornIters>>]

FromRandomRedraw(method, sinkhornIters, r) ==
  IF method = "hc"
  THEN [H |-> r.M, g |-> r.g, M |-> r.M, sk |-> <<>>]
  ELSE FromRandomRedrawn(sinkhornIters, randomMatrix(Len(r.M), r.g))

FromRandomNoBypass(method, sinkhornIters, r) ==
  IF method = "hc"
  THEN [H |-> r.M, g |-> r.g, M |-> r.M, sk |-> <<>>]
  ELSE [H |-> sinkhornKnopp(r.M, sinkhornIters), g |-> r.g,
        M |-> r.M, sk |-> <<sinkhornIters>>]

FromRandomLenient(method, sinkhornIters, r) ==
  IF method = "hc"
  THEN [H |-> r.M, g |-> r.g, M |-> r.M, sk |-> <<>>]
  ELSE IF sinkhornIters = 0
  THEN [H |-> r.M, g |-> r.g, M |-> r.M, sk |-> <<>>]
  ELSE [H |-> sinkhornKnopp(r.M, sinkhornIters), g |-> r.g,
        M |-> r.M, sk |-> <<sinkhornIters>>]

\* lines 32-45, with r = the random matrix M and the generator after drawing it.
\* A call that throws yields a record with a field thrown and no matrix.
FromRandom(method, sinkhornIters, r) ==
  IF method = "hc"
  THEN [H |-> r.M, g |-> r.g, M |-> r.M, sk |-> <<>>]
  ELSE IF method = "mhc"
  THEN IF sinkhornIters = 0
       THEN [H |-> r.M, g |-> r.g, M |-> r.M, sk |-> <<>>]
       ELSE [H |-> sinkhornKnopp(r.M, sinkhornIters), g |-> r.g,
             M |-> r.M, sk |-> <<sinkhornIters>>]
  ELSE [thrown |-> "Error", message |-> <<"Unknown method: ", method>>, g |-> r.g]

DrawnFirst(n, method, sinkhornIters, r) ==
  IF method = "baseline"
  THEN [H |-> eye(n), g |-> r.g, M |-> None, sk |-> <<>>]
  ELSE FromRandom(method, sinkhornIters, r)

generateResidualMatrixEager(n, method, sinkhornIters, g) ==
  DrawnFirst(n, method, sinkhornIters, randomMatrix(n, g))

generateResidualMatrix(n, method, sinkhornIters, g) ==
  IF method = "baseline"
  THEN [H |-> eye(n), g |-> g, M |-> None, sk |-> <<>>]
  ELSE FromRandom(method, sinkhornIters, randomMatrix(n, g))

\* perLayer.push({ layer: layerIdx, ...layerMetrics })
LayerRecord(layerIdx, H) == [layer |-> layerIdx] @@ computeAllMetrics(H)

CompositeRecordOneBased(layerIdx, compositeMatrix) ==
  [uptoLayer |-> layerIdx + 1] @@ computeAllMetrics(compositeMatrix)

\* composite.push({ uptoLayer: layerIdx, ...compositeMetrics })
CompositeRecord(layerIdx, compositeMatrix) ==
  [uptoLayer |-> layerIdx] @@ computeAllMetrics(compositeMatrix)

UpdateCompositeRight(H, compositeMatrix) == matmul(compositeMatrix, H)

\* compositeMatrix = matmul(H, compositeMatrix)
UpdateComposite(H, compositeMatrix) == matmul(H, compositeMatrix)

\* the simulateDepth frame on entry: its arguments and its locals
EnterSimulateDepth(depth, n, method, sinkhornIters, seed) ==
  [depth |-> depth, n |-> n, method |-> method, sinkhornIters |-> sinkhornIters,
   seed |-> seed,
   rng |-> mulberry32(seed),
   perLayer |-> <<>>,
   composite |-> <<>>,
   compositeMatrix |-> eye(n),
   layerIdx |-> 0,
   Hs |-> <<>>, Ms |-> <<>>, sk |-> <<>>, log |-> <<>>]

\* lines 69-84, with gen = the generated layer and comp = the updated composite
RecordLayer(f, gen, comp) ==
      [f EXCEPT !.rng = gen.g,
                !.perLayer = Append(@, LayerRecord(f.layerIdx, gen.H)),
                !.compositeMatrix = comp,
                !.composite = Append(@, CompositeRecord(f.layerIdx, comp)),
                !.layerIdx = @ + 1,
                !.Hs = Append(@, gen.H),
                !.Ms = Append(@, gen.M),
                !.sk = @ \o gen.sk,
                !.log = @ \o << <<"perLayer", f.layerIdx>>,
                                <<"composite", f.layerIdx>> >>]

WithLayer(f, gen) == RecordLayer(f, gen, UpdateComposite(gen.H, f.compositeMatrix))

\* one pass of the for loop of simulateDepth
LoopBody(f) ==
  WithLayer(f, generateResidualMatrix(f.n, f.method, f.sinkhornIters, f.rng))

\* the returned SimulationResult
ResultOf(f) ==
  [method |-> f.method, depth |-> f.depth, n |-> f.n,
   sinkhornIters |-> f.sinkhornIters, seed |-> f.seed,
   perLayer |-> f.perLayer, composite |-> f.composite]

\* what the model keeps of a finished run beside its result
TraceOf(f) == [Hs |-> f.Hs, Ms |-> f.Ms, sk |-> f.sk, log |-> f.log,
               compositeMatrix |-> f.compositeMatrix, calls |-> f.rng.calls]

RECURSIVE RunLoop(_)
\* for (let layerIdx = 0; layerIdx < depth; layerIdx++) { ... }
RunLoop(f) == IF f.layerIdx < f.depth THEN RunLoop(LoopBody(f)) ELSE f

\* simulateDepth(depth, n, method, sinkhornIters, seed), called on its own
simulateDepth(depth, n, method, sinkhornIters, seed) ==
  ResultOf(RunLoop(EnterSimulateDepth(depth, n, method, sinkhornIters, seed)))

getSampleMatrixReseeded(n, method, sinkhornIters, seed) ==
  generateResidualMatrix(n, method, sinkhornIters, mulberry32(seed + 1)).H

\* getSampleMatrix(n, method, sinkhornIters, seed)
getSampleMatrix(n, method, sinkhornIters, seed) ==
  generateResidualMatrix(n, method, sinkhornIters, mulberry32(seed)).H

\* the order in which runComparison's object literal evaluates its calls
ComparisonOrder == <<"baseline", "hc", "mhc">>

(***************************************************************************)
(* The engine and one client.  The client fixes a configuration and then   *)
(* calls simulateDepth, runComparison and getSampleMatrix with it; it also *)
(* owns two generators made by mulberry32(seed) and draws from them.       *)
(***************************************************************************)
VARIABLES cfg, pc, entry, frame, cmp, result, comparison, sample, traces,
          calls, gens, outs, skCall, lib, dial, tour

simVars == <<cfg, pc, entry, frame, cmp, result, comparison, sample, traces,
             calls, gens, outs>>

\* the page's components: ManifoldDial's hooks and TourOverlay's
uiVars == <<dial, tour>>

vars == <<cfg, pc, entry, frame, cmp, result, comparison, sample, traces,
          calls, gens, outs, skCall, lib, dial, tour>>

Clients == {"A", "B"}

SharedSlot(i) == "A"

\* where the closure made for client generator i keeps its state: each call of
\* mulberry32 captures its own seed parameter
Slot(i) == i

Configs ==
  [depth : 1..MaxDepth, n : 1..MaxN, sinkhornIters : 0..MaxSinkhornIters,
   seed : Seeds]

SimIdle ==
  /\ pc = "idle"
  /\ entry = None
  /\ frame = None
  /\ cmp = None
  /\ result = None
  /\ comparison = None
  /\ sample = None
  /\ traces = None
  /\ calls = 0
  /\ gens = [i \in Clients |-> mulberry32(cfg.seed)]
  /\ outs = [i \in Clients |-> <<>>]

\* no component is mounted
UiIdle == dial = None /\ tour = None

Init ==
  /\ cfg \in Configs
  /\ SimIdle
  /\ UiIdle
  /\ skCall = None
  /\ lib = None

NoDraws == \A i \in Clients : outs[i] = <<>>

CallSimulateDepth(method) ==
  /\ pc = "idle" /\ calls < MaxCalls /\ NoDraws
  /\ pc' = "loop"
  /\ entry' = [fn |-> "simulateDepth", method |-> method]
  /\ frame' = EnterSimulateDepth(cfg.depth, cfg.n, method, cfg.sinkhornIters, cfg.seed)
  /\ calls' = calls + 1
  /\ UNCHANGED <<cfg, cmp, result, comparison, sample, traces, gens, outs, skCall, lib, uiVars>>

CallRunComparison ==
  /\ pc = "idle" /\ calls < MaxCalls /\ NoDraws
  /\ pc' = "loop"
  /\ entry' = [fn |-> "runComparison"]
  /\ cmp' = [results |-> <<>>, traces |-> <<>>]
  /\ frame' = EnterSimulateDepth(cfg.depth, cfg.n, ComparisonOrder[1],
                                 cfg.sinkhornIters, cfg.seed)
  /\ calls' = calls + 1
  /\ UNCHANGED <<cfg, result, comparison, sample, traces, gens, outs, skCall, lib, uiVars>>

LayerStep ==
  /\ pc = "loop"
  /\ frame.layerIdx < frame.depth
  /\ frame' = LoopBody(frame)
  /\ UNCHANGED <<cfg, pc, entry, cmp, result, comparison, sample, traces,
                 calls, gens, outs, skCall, lib, uiVars>>

ReturnToClient ==
  /\ pc = "loop" /\ entry.fn = "simulateDepth"
  /\ ~(frame.layerIdx < frame.depth)
  /\ result' = ResultOf(frame)
  /\ traces' = TraceOf(frame)
  /\ pc' = "idle"
  /\ frame' = None
  /\ UNCHANGED <<cfg, entry, cmp, comparison, sample, calls, gens, outs, skCall, lib, uiVars>>

ReturnToComparison ==
  /\ pc = "loop" /\ entry.fn = "runComparison"
  /\ ~(frame.layerIdx < frame.depth)
  /\ \E done \in {[results |-> Append(cmp.results, ResultOf(frame)),
                     traces  |-> Append(cmp.traces, TraceOf(frame))]} :
         IF Len(done.results) < Len(ComparisonOrder)
         THEN /\ cmp' = done
              /\ frame' = EnterSimulateDepth(cfg.depth, cfg.n,
                                             ComparisonOrder[Len(done.results) + 1],
                                             cfg.sinkhornIters, cfg.seed)
              /\ UNCHANGED <<pc, comparison>>
         ELSE /\ comparison' = done
              /\ cmp' = None
              /\ frame' = None
              /\ pc' = "idle"
  /\ UNCHANGED <<cfg, entry, result, sample, traces, calls, gens, outs, skCall, lib, uiVars>>

CallGetSampleMatrix(method) ==
  /\ pc = "idle" /\ calls < MaxCalls /\ NoDraws
  /\ sample' = [method |-> method,
                matrix |-> getSampleMatrix(cfg.n, method, cfg.sinkhornIters, cfg.seed)]
  /\ entry' = [fn |-> "getSampleMatrix", method |-> method]
  /\ calls' = calls + 1
  /\ UNCHANGED <<cfg, pc, frame, cmp, result, comparison, traces, gens, outs,
                 skCall, lib, uiVars>>

ClientDraw(i) ==
  /\ pc = "idle"
  /\ Len(outs[i]) < MaxDraws
  /\ \E r \in {rngCall(gens[Slot(i)])} :
       /\ gens' = [gens EXCEPT ![Slot(i)] = r.g]
       /\ outs' = [outs EXCEPT ![i] = Append(@, r.u)]
  /\ UNCHANGED <<cfg, pc, entry, frame, cmp, result, comparison, sample, traces, calls,
                 skCall, lib, uiVars>>

Next ==
  \/ \E m \in Methods : CallSimulateDepth(m)
  \/ CallRunComparison
  \/ LayerStep
  \/ ReturnToClient
  \/ ReturnToComparison
  \/ \E m \in Methods : CallGetSampleMatrix(m)
  \/ \E i \in Clients : ClientDraw(i)

Spec == Init /\ [][Next]_vars

(***************************************************************************)
(* sinkhornKnopp called directly, one pass of its for loop per step, on    *)
(* the n x n matrices that are 0 except in the last row and column.        *)
(***************************************************************************)
SkEntries == {0 - 30 * ONE, 0 - 12 * ONE, 0 - ONE, 0}

SkIterations == {0, 1, LargeK}

SkMatrix(n, a, b, c) ==
  Mat(n, n, LAMBDA i, j : (IF i = n THEN a ELSE 0) + (IF j = n THEN b ELSE 0)
                          + (IF i = n /\ j = n THEN c ELSE 0))

SkInputs ==
  {SkMatrix(n, a, b, c) : n \in 1..MaxSkN, a \in SkEntries,
                          b \in SkEntries, c \in SkEntries}
  \cup {Mat(n, n, LAMBDA i, j : ONE) : n \in 1..MaxSkN}

PObjectIsArgument == "matrix"

\* let P = matrix.map(...): P is an array of its own, not the argument; the
\* loop's P[i][j] /= divisor writes into the object P names
PObject == "P"

\* runComparison's default arguments
DefaultConfig == [depth |-> 64, n |-> 4, sinkhornIters |-> 20, seed |-> 42]

SkInit ==
  /\ cfg = DefaultConfig
  /\ SimIdle
  /\ UiIdle
  /\ lib = None
  /\ skCall \in {[matrix |-> m, input |-> m, iterations |-> k, pc |-> "enter",
                   P |-> None, iter |-> 0, rowDivisors |-> None,
                   colDivisors |-> None] : m \in SkInputs, k \in SkIterations}

\* lines 99-108
SkExponentiate ==
  /\ skCall.pc = "enter"
  /\ skCall' = [skCall EXCEPT !.pc = "loop",
                              ![PObject] = Exponentiate(skCall.matrix)]
  /\ UNCHANGED <<simVars, lib, uiVars>>

\* lines 110-131, one iteration
SkRound ==
  /\ skCall.pc = "loop"
  /\ skCall.iter < skCall.iterations
  /\ skCall' = [skCall EXCEPT ![PObject] = SinkhornRound(skCall[PObject]),
                              !.iter = @ + 1,
                              !.rowDivisors = RowDivisors(skCall[PObject]),
                              !.colDivisors =
                                 ColDivisors(RowNormalize(skCall[PObject]))]
  /\ UNCHANGED <<simVars, lib, uiVars>>

\* line 133
SkReturn ==
  /\ skCall.pc = "loop"
  /\ ~(skCall.iter < skCall.iterations)
  /\ skCall' = [skCall EXCEPT !.pc = "done"]
  /\ UNCHANGED <<simVars, lib, uiVars>>

SkNext == SkExponentiate \/ SkRound \/ SkReturn

SpecSk == SkInit /\ [][SkNext]_vars

(***************************************************************************)
(* eigenvaluesSorted and its helpers (metrics.ts).  The thresholds 1e-10   *)
(* are below one unit of the number format, so |x| < 1e-10 holds exactly   *)
(* of 0 and x > 1e-10 of every x of at least one unit.                     *)
(***************************************************************************)
maxIters == 100

\* y * y <= x * ONE, for y and x in units, without leaving 32 bits: y * y is
\* SquareHigh * ONE + SquareLow
SquareLow(y) ==
  ((((2 * (y \div HalfBits) * (y % HalfBits)) % HalfBits) * HalfBits)
   + (y % HalfBits) * (y % HalfBits)) % ONE

SquareHigh(y) ==
  (y \div HalfBits) * (y \div HalfBits)
  + ((2 * (y \div HalfBits) * (y % HalfBits)) \div HalfBits)
  + (((((2 * (y \div HalfBits) * (y % HalfBits)) % HalfBits) * HalfBits)
      + (y % HalfBits) * (y % HalfBits)) \div ONE)

SquareAtMost(y, x) ==
  SquareHigh(y) < x \/ (SquareHigh(y) = x /\ SquareLow(y) = 0)

RECURSIVE SqrtBitsFrom(_, _, _)
\* the largest y = acc + (bits below 2^bit) with y * y <= x; x and acc are
\* bound values
SqrtBitsFrom(x, bit, acc) ==
  IF bit < 0 THEN acc
  ELSE CHOOSE r \in {SqrtBitsFrom(x, bit - 1, next) :
                       next \in {IF SquareAtMost(acc + 2^bit, x)
                                 THEN acc + 2^bit ELSE acc}} : TRUE

SqrtBits(x, bit, acc) ==
  CHOOSE r \in {SqrtBitsFrom(y, bit, acc) : y \in {x}} : TRUE

\* Math.sqrt
NSqrt(x) ==
  CHOOSE r \in {IF IsNaN(y) \/ y < 0 THEN NaN
                ELSE IF y >= Infinity THEN Infinity
                ELSE SqrtBits(y, 25, 0) : y \in {x}} : TRUE

\* x / 2
Half(x) == IF IsNaN(x) THEN NaN ELSE Sign(x) * (Abs(x) \div 2)

\* Math.abs(x) < 1e-10
LtTiny(x) == ~IsNaN(x) /\ Abs(x) = 0

\* x > 1e-10
GtTiny(x) == ~IsNaN(x) /\ x > 0

RECURSIVE DotAcc(_, _, _, _)
DotAcc(a, b, k, sum) ==
  IF k > Len(a) THEN sum
  ELSE CHOOSE r \in {DotAcc(a, b, k + 1, next) :
                       next \in {NAdd(sum, NMul(a[k], b[k]))}} : TRUE

\* a.reduce((sum, val, i) => sum + val * b[i], 0)
dotProduct(a, b) ==
  CHOOSE r \in {DotAcc(x, y, 1, 0) : x \in {a}, y \in {b}} : TRUE

RECURSIVE LastProduct(_, _, _, _)
LastProduct(a, b, k, sum) ==
  IF k > Len(a) THEN sum ELSE LastProduct(a, b, k + 1, NMul(a[k], b[k]))

matrixMultiplyOverwrite(A, B) ==
  Mat(Len(A), Len(A), LAMBDA i, j : LastProduct(A[i], Column(B, j), 1, 0))

\* result[i][j] += A[i][k] * B[k][j] over k, from 0
matrixMultiply(A, B) ==
  Mat(Len(A), Len(A), LAMBDA i, j : dotProduct(A[i], Column(B, j)))

\* v.map((val, idx) => val - R[i][j] * qi[idx])
SubtractProjection(v, rij, qi) ==
  Tab(Len(v), LAMBDA idx : NSub(v[idx], NMul(rij, qi[idx])))

RECURSIVE Project(_, _, _, _, _, _)
RECURSIVE ProjectWith(_, _, _, _, _, _, _)
\* lines 90-94 for column j: v after the projections onto q_1 .. q_(j-1), and
\* r = R[1][j] .. R[j-1][j]
Project(col, qs, i, j, v, r) ==
  IF i >= j THEN [v |-> v, r |-> r]
  ELSE CHOOSE p \in {ProjectWith(col, qs, i, j, v, r, rij) :
                       rij \in {dotProduct(qs[i], col)}} : TRUE

ProjectWith(col, qs, i, j, v, r, rij) ==
  CHOOSE p \in {Project(col, qs, i + 1, j, nv, nr) :
                  nv \in {SubtractProjection(v, rij, qs[i])},
                  nr \in {Append(r, rij)}} : TRUE

\* lines 98-107: column j of Q
QColumnDivided(v, rjj, j) == Tab(Len(v), LAMBDA i : QDiv(v[i], <<rjj, 1>>))

QColumn(v, rjj, j) ==
  IF GtTiny(rjj)
  THEN Tab(Len(v), LAMBDA i : QDiv(v[i], <<rjj, 1>>))
  ELSE Tab(Len(v), LAMBDA i : IF i = j THEN ONE ELSE 0)

\* column j of R: the projections, the norm, zeros below
RColumn(r, rjj, n) == r \o <<rjj>> \o Tab(n - Len(r) - 1, LAMBDA i : 0)

RECURSIVE QRFrom(_, _, _, _)
RECURSIVE QRProjected(_, _, _, _, _)
RECURSIVE QRNormed(_, _, _, _, _, _)
\* lines 86-108 from column j on, qs and rs the columns of Q and R so far
QRFrom(A, j, qs, rs) ==
  IF j > Len(A)
  THEN [Q |-> Mat(Len(A), Len(A), LAMBDA i, k : qs[k][i]),
        R |-> Mat(Len(A), Len(A), LAMBDA i, k : rs[k][i])]
  ELSE CHOOSE d \in {QRProjected(A, j, qs, rs, p) :
                       p \in {Project(col, qs, 1, j, col, <<>>) :
                                col \in {Column(A, j)}}} : TRUE

QRProjected(A, j, qs, rs, p) ==
  CHOOSE d \in {QRNormed(A, j, qs, rs, p, rjj) :
                  rjj \in {NSqrt(dotProduct(p.v, p.v))}} : TRUE

QRNormed(A, j, qs, rs, p, rjj) ==
  CHOOSE d \in {QRFrom(A, j + 1, nq, nr) :
                  nq \in {Append(qs, QColumn(p.v, rjj, j))},
                  nr \in {Append(rs, RColumn(p.r, rjj, Len(A)))}} : TRUE

qrDecomposition(A) ==
  CHOOSE d \in {QRFrom(M, 1, <<>>, <<>>) : M \in {A}} : TRUE

\* i === n - 1, with i counted from 0
LastRowNever(i, n) == FALSE

LastRow(i, n) == i = n - 1

\* lines 39-57 for the block with corner (i, i), i counted from 0
BlockRootsComplexOnly(trace, discriminant) ==
  <<[real |-> Half(trace), imag |-> Half(NSqrt(NSub(0, discriminant)))],
    [real |-> Half(trace),
     imag |-> NSub(0, Half(NSqrt(NSub(0, discriminant))))]>>

BlockRoots(trace, discriminant) ==
  IF ~IsNaN(discriminant) /\ discriminant >= 0
  THEN <<[real |-> Half(NAdd(trace, NSqrt(discriminant))), imag |-> 0],
         [real |-> Half(NSub(trace, NSqrt(discriminant))), imag |-> 0]>>
  ELSE <<[real |-> Half(trace), imag |-> Half(NSqrt(NSub(0, discriminant)))],
         [real |-> Half(trace),
          imag |-> NSub(0, Half(NSqrt(NSub(0, discriminant))))]>>

BlockOf(a, b, c, d) ==
  CHOOSE roots \in
    {BlockRoots(trace, discriminant) :
       trace \in {NAdd(a, d)},
       discriminant \in {NSub(NMul(NAdd(a, d), NAdd(a, d)),
                              NMul(4 * ONE, NSub(NMul(a, d), NMul(b, c))))}} :
    TRUE

\* one pass of the while loop at index i (from 0): the eigenvalues pushed, the
\* next index and the rows of A read
ScanStep(A, n, i) ==
  IF LastRow(i, n)
  THEN [push |-> <<[real |-> Cell(A, i + 1, i + 1), imag |-> 0]>>,
        i |-> i + 1, rows |-> {i}]
  ELSE IF LtTiny(Cell(A, i + 2, i + 1))
  THEN [push |-> <<[real |-> Cell(A, i + 1, i + 1), imag |-> 0]>>,
        i |-> i + 1, rows |-> {i, i + 1}]
  ELSE [push |-> BlockOf(Cell(A, i + 1, i + 1), Cell(A, i + 1, i + 2),
                         Cell(A, i + 2, i + 1), Cell(A, i + 2, i + 2)),
        i |-> i + 2, rows |-> {i, i + 1}]

\* Math.sqrt(e.real * e.real + e.imag * e.imag)
Magnitude(e) == NSqrt(NAdd(NMul(e.real, e.real), NMul(e.imag, e.imag)))

\* the comparator of the sort: magB - magA
Compare(a, b) == NSub(Magnitude(b), Magnitude(a))

RECURSIVE InsertSorted(_, _, _)
\* e placed after every element it does not have to precede (the sort is stable)
InsertSorted(e, sorted, k) ==
  IF k > Len(sorted) THEN Append(sorted, e)
  ELSE IF NGt(Compare(sorted[k], e), 0)
  THEN SubSeq(sorted, 1, k - 1) \o <<e>> \o SubSeq(sorted, k, Len(sorted))
  ELSE InsertSorted(e, sorted, k + 1)

RECURSIVE SortFrom(_, _, _)
SortFrom(xs, k, sorted) ==
  IF k > Len(xs) THEN sorted
  ELSE CHOOSE r \in {SortFrom(xs, k + 1, next) :
                       next \in {InsertSorted(xs[k], sorted, 1)}} : TRUE

\* eigenvalues.sort((a, b) => magB - magA)
SortByMagnitude(xs) ==
  CHOOSE r \in {SortFrom(ys, 1, <<>>) : ys \in {xs}} : TRUE

\* largestEigenvalueMagnitude, given what eigenvaluesSorted(matrix) returned
largestEigenvalueMagnitude(eigs) ==
  IF Len(eigs) < 1 THEN 0 ELSE Magnitude(eigs[1])

secondLargestEigenvalueMagnitude(eigs) ==
  IF Len(eigs) < 2 THEN 0 ELSE Magnitude(eigs[2])

(***************************************************************************)
(* The exported functions called directly, one call from an idle client,   *)
(* with arguments the simulator itself never passes.  A call that throws   *)
(* leaves a record with the field thrown; a call that returns leaves one   *)
(* without it.                                                             *)
(***************************************************************************)
Thrown(out) == "thrown" \in DOMAIN out

\* const m = B[0].length throws a TypeError when B has no row; nothing else in
\* matmul throws
matmulCall(A, B) ==
  IF Len(B) = 0 THEN [thrown |-> "TypeError"] ELSE [value |-> matmul(A, B)]

\* simulateDepth with any integers: eye(n) throws a RangeError from Array(n)
\* when n < 0, and with n = 0 the first matmul(H, compositeMatrix) throws
simulateDepthCall(depth, n, method, sinkhornIters, seed) ==
  IF n < 0 THEN [thrown |-> "RangeError"]
  ELSE IF depth >= 1 /\ Thrown(matmulCall(eye(n), eye(n)))
  THEN matmulCall(eye(n), eye(n))
  ELSE [value |-> simulateDepth(depth, n, method, sinkhornIters, seed)]

RunAll(depth, n, sinkhornIters, seed) ==
  [baseline |-> simulateDepth(depth, n, "baseline", sinkhornIters, seed),
   hc |-> simulateDepth(depth, n, "hc", sinkhornIters, seed),
   mhc |-> simulateDepth(depth, n, "mhc", sinkhornIters, seed)]

\* runComparison: the first simulateDepth call that throws ends it
runComparisonCall(depth, n, sinkhornIters, seed) ==
  IF Thrown(simulateDepthCall(depth, n, "baseline", sinkhornIters, seed))
  THEN simulateDepthCall(depth, n, "baseline", sinkhornIters, seed)
  ELSE [value |-> RunAll(depth, n, sinkhornIters, seed)]

\* an r x c matrix with entries that tell its positions apart
ApiMatrix(r, c) == Mat(r, c, LAMBDA i, j : (2 * i + j) * ONE)

MethodTags == Methods \cup {"", "HC", "identity"}

ApiSeeds == {0 - 1, 0, 1, 42, 2147483647, 0 - 2147483647}

ApiInit ==
  /\ cfg = DefaultConfig
  /\ SimIdle
  /\ UiIdle
  /\ skCall = None
  /\ lib = None

ApiMatmul ==
  /\ lib = None
  /\ \E ra \in 1..MaxDim, ca \in 1..MaxDim, rb \in 0..MaxDim, cb \in 1..MaxDim :
       \E A \in {ApiMatrix(ra, ca)}, B \in {ApiMatrix(rb, cb)} :
         lib' = [fn |-> "matmul", A |-> A, B |-> B, out |-> matmulCall(A, B)]
  /\ UNCHANGED <<simVars, skCall, uiVars>>

ApiGenerate ==
  /\ lib = None
  /\ \E n \in 1..MaxN, method \in MethodTags, k \in 0..1, seed \in Seeds :
       lib' = [fn |-> "generateResidualMatrix", n |-> n, method |-> method,
               sinkhornIters |-> k, seed |-> seed,
               out |-> generateResidualMatrix(n, method, k, mulberry32(seed))]
  /\ UNCHANGED <<simVars, skCall, uiVars>>

ApiSimulate ==
  /\ lib = None
  /\ \E depth \in (0 - 1)..MaxApiDepth, n \in (0 - 1)..MaxN, k \in (0 - 1)..1,
        method \in Methods :
       lib' = [fn |-> "simulateDepth", depth |-> depth, n |-> n, method |-> method,
               sinkhornIters |-> k, seed |-> DefaultConfig.seed,
               out |-> simulateDepthCall(depth, n, method, k, DefaultConfig.seed)]
  /\ UNCHANGED <<simVars, skCall, uiVars>>

ApiCompare ==
  /\ lib = None
  /\ \E depth \in (0 - 1)..MaxApiDepth, n \in (0 - 1)..MaxN, k \in (0 - 1)..1 :
       lib' = [fn |-> "runComparison", depth |-> depth, n |-> n,
               sinkhornIters |-> k, seed |-> DefaultConfig.seed,
               out |-> runComparisonCall(depth, n, k, DefaultConfig.seed)]
  /\ UNCHANGED <<simVars, skCall, uiVars>>

\* const rng = mulberry32(seed)
ApiSeed ==
  /\ lib = None
  /\ \E seed \in ApiSeeds :
       lib' = [fn |-> "mulberry32", seed |-> seed, g |-> mulberry32(seed),
               k |-> 0, u |-> None]
  /\ UNCHANGED <<simVars, skCall, uiVars>>

\* rng()
ApiNext ==
  /\ lib # None /\ lib.fn = "mulberry32"
  /\ lib.k < MaxApiDraws
  /\ \E r \in {rngCall(lib.g)} :
       lib' = [lib EXCEPT !.g = r.g, !.k = @ + 1, !.u = r.u]
  /\ UNCHANGED <<simVars, skCall, uiVars>>

ApiStep ==
  \/ ApiMatmul
  \/ ApiGenerate
  \/ ApiSimulate
  \/ ApiCompare
  \/ ApiSeed
  \/ ApiNext

SpecApi == ApiInit /\ [][ApiStep]_vars

(***************************************************************************)
(* One call of eigenvaluesSorted(matrix), a QR round, a pass of the scan   *)
(* or the sort per step.  lib.rows collects the rows of A the scan reads.  *)
(***************************************************************************)
MaxEigN == 3

\* matrices with a complex pair, a real pair in a block, unsorted diagonals,
\* a zero column
EigFixed ==
  {<<<<0, 0 - ONE>>, <<ONE, 0>>>>,
   <<<<0, ONE>>, <<ONE, 0>>>>,
   <<<<2 * ONE, ONE>>, <<ONE, 2 * ONE>>>>,
   <<<<ONE, 2 * ONE>>, <<0, 3 * ONE>>>>,
   <<<<ONE, ONE>>, <<0, 0>>>>,
   <<<<ONE, 0, 0>>, <<0, 0, 0 - 2 * ONE>>, <<0, 2 * ONE, 0>>>>,
   <<<<0, 0 - 2 * ONE, 0>>, <<2 * ONE, 0, 0>>, <<0, 0, ONE>>>>}

EigInputs ==
  {eye(n) : n \in 1..MaxEigN}
  \cup {Mat(n, n, LAMBDA i, j : 0) : n \in 1..MaxEigN}
  \cup EigFixed
  \cup {generateResidualMatrix(n, method, 1, mulberry32(seed)).H :
          n \in 1..MaxN, method \in Methods, seed \in Seeds}

\* const n = matrix.length; let A = matrix.map(row => [...row])
EigInit ==
  /\ cfg = DefaultConfig
  /\ SimIdle
  /\ UiIdle
  /\ skCall = None
  /\ lib \in {[fn |-> "eigenvaluesSorted", matrix |-> m, n |-> Len(m), A |-> m,
               iter |-> 0, pc |-> "qr", Q |-> None, R |-> None, i |-> 0,
               eigenvalues |-> <<>>, rows |-> {}, scanned |-> None] :
                m \in EigInputs}

\* const { Q, R } = qrDecomposition(A); A = matrixMultiply(R, Q)
EigRound ==
  /\ lib.pc = "qr"
  /\ lib.iter < maxIters
  /\ \E d \in {qrDecomposition(lib.A)} :
       lib' = [lib EXCEPT !.Q = d.Q, !.R = d.R, !.A = matrixMultiply(d.R, d.Q),
                          !.iter = @ + 1]
  /\ UNCHANGED <<simVars, skCall, uiVars>>

\* one pass of while (i < n)
EigScan ==
  /\ lib.pc \in {"qr", "scan"}
  /\ lib.iter >= maxIters
  /\ lib.i < lib.n
  /\ \E st \in {ScanStep(lib.A, lib.n, lib.i)} :
       lib' = [lib EXCEPT !.pc = "scan", !.i = st.i,
                          !.eigenvalues = @ \o st.push,
                          !.rows = @ \cup st.rows]
  /\ UNCHANGED <<simVars, skCall, uiVars>>

\* eigenvalues.sort(...); return eigenvalues
EigSort ==
  /\ lib.pc \in {"qr", "scan"}
  /\ lib.iter >= maxIters
  /\ ~(lib.i < lib.n)
  /\ lib' = [lib EXCEPT !.pc = "done", !.scanned = lib.eigenvalues,
                        !.eigenvalues = SortByMagnitude(lib.eigenvalues)]
  /\ UNCHANGED <<simVars, skCall, uiVars>>

EigStep ==
  \/ EigRound
  \/ EigScan
  \/ EigSort

SpecEig == EigInit /\ [][EigStep]_vars

(***************************************************************************)
(* runComparison(64, 4, sinkhornIters, 42) with its three simulateDepth    *)
(* calls in order, stepped through the loops of simulateDepth and of       *)
(* sinkhornKnopp.  A double carries a binary exponent; here the entries of *)
(* the composite share one, lib.e, so that the composite is                *)
(* lib.composite * 2^lib.e whatever its size.                              *)
(***************************************************************************)
RegIters == {15, 16, 20}

RegMethods == <<"baseline", "hc", "mhc">>

\* entries are kept below 8 in magnitude
Mantissa == 8 * ONE

MaxAbsEntry(C) ==
  MaxSeq(Tab(Len(C), LAMBDA i : MaxSeq(Tab(Len(C[i]), LAMBDA j : NAbs(C[i][j])),
                                       1, 0)), 1, 0)

RECURSIVE Rescale(_, _)
Rescale(C, e) ==
  IF MaxAbsEntry(C) < Mantissa THEN [m |-> C, e |-> e]
  ELSE Rescale(Mat(Len(C), Len(C), LAMBDA i, j : Half(C[i][j])), e + 1)

RegInit ==
  /\ cfg = DefaultConfig
  /\ SimIdle
  /\ UiIdle
  /\ skCall = None
  /\ lib \in {[fn |-> "runComparison", depth |-> DefaultConfig.depth,
               n |-> DefaultConfig.n, sinkhornIters |-> k,
               seed |-> DefaultConfig.seed, pc |-> "loop", m |-> 1,
               layerIdx |-> 0, g |-> mulberry32(DefaultConfig.seed),
               composite |-> eye(DefaultConfig.n), e |-> 0, H |-> None,
               P |-> None, iter |-> 0, finals |-> <<>>] : k \in RegIters}

\* const H = generateResidualMatrix(n, method, sinkhornIters, rng), up to
\* the loop of sinkhornKnopp when the method runs it
RegGenerate ==
  /\ lib.pc = "loop"
  /\ lib.layerIdx < lib.depth
  /\ IF RegMethods[lib.m] = "mhc" /\ lib.sinkhornIters # 0
     THEN \E r \in {randomMatrix(lib.n, lib.g)} :
            lib' = [lib EXCEPT !.pc = "sinkhorn", !.g = r.g, !.iter = 0,
                               !.P = Exponentiate(r.M)]
     ELSE \E r \in {generateResidualMatrix(lib.n, RegMethods[lib.m],
                                           lib.sinkhornIters, lib.g)} :
            lib' = [lib EXCEPT !.pc = "compose", !.g = r.g, !.H = r.H]
  /\ UNCHANGED <<simVars, skCall, uiVars>>

\* one iteration of sinkhornKnopp's loop
RegRound ==
  /\ lib.pc = "sinkhorn"
  /\ lib.iter < lib.sinkhornIters
  /\ lib' = [lib EXCEPT !.P = SinkhornRound(lib.P), !.iter = @ + 1]
  /\ UNCHANGED <<simVars, skCall, uiVars>>

\* return P, which generateResidualMatrix returns as H
RegProjected ==
  /\ lib.pc = "sinkhorn"
  /\ ~(lib.iter < lib.sinkhornIters)
  /\ lib' = [lib EXCEPT !.pc = "compose", !.H = lib.P, !.P = None]
  /\ UNCHANGED <<simVars, skCall, uiVars>>

\* compositeMatrix = matmul(H, compositeMatrix)
RegCompose ==
  /\ lib.pc = "compose"
  /\ \E c \in {Rescale(UpdateComposite(lib.H, lib.composite), lib.e)} :
       lib' = [lib EXCEPT !.pc = "loop", !.layerIdx = @ + 1,
                          !.composite = c.m, !.e = c.e]
  /\ UNCHANGED <<simVars, skCall, uiVars>>

\* simulateDepth returns; the next one starts from mulberry32(seed) and eye(n)
RegReturn ==
  /\ lib.pc = "loop"
  /\ ~(lib.layerIdx < lib.depth)
  /\ \E f \in {Append(lib.finals,
                      [method |-> RegMethods[lib.m],
                       forwardGain |-> forwardGain(lib.composite),
                       e |-> lib.e])} :
       IF lib.m < Len(RegMethods)
       THEN lib' = [lib EXCEPT !.m = @ + 1, !.layerIdx = 0,
                               !.g = mulberry32(lib.seed),
                               !.composite = eye(lib.n), !.e = 0, !.H = None,
                               !.finals = f]
       ELSE lib' = [lib EXCEPT !.pc = "done", !.finals = f]
  /\ UNCHANGED <<simVars, skCall, uiVars>>

RegStep ==
  \/ RegGenerate
  \/ RegRound
  \/ RegProjected
  \/ RegCompose
  \/ RegReturn

SpecReg == RegInit /\ [][RegStep]_vars

(***************************************************************************)
(* The composite accumulation of simulateDepth over layer matrices that    *)
(* are doubly stochastic to the last unit: permutations, and matrices with *)
(* two weights a and 1 - a on cyclic diagonals.                            *)
(***************************************************************************)
MaxDsN == 3

MaxDsDepth == 3

\* weights a: 0 and 1 give permutations, 1/2 and 1/4 products without
\* rounding, the others products that round
DsWeights == {0, ONE, ONE \div 2, ONE \div 4, ONE \div 3, ONE \div 10}

\* a on the diagonal, 1 - a on the next cyclic diagonal
Cyclic(n, a) ==
  Mat(n, n, LAMBDA i, j : (IF j = i THEN a ELSE 0)
                          + (IF j = (i % n) + 1 THEN ONE - a ELSE 0))

\* the permutation that swaps the first two indices
Swap(n) ==
  Mat(n, n, LAMBDA i, j : IF (i <= 2 /\ j <= 2 /\ i # j) \/ (i > 2 /\ i = j)
                          THEN ONE ELSE 0)

DsLayers(n) ==
  IF n = 1 THEN {eye(1)}
  ELSE {Cyclic(n, a) : a \in DsWeights} \cup {Swap(n)}

DsInit ==
  /\ cfg = DefaultConfig
  /\ SimIdle
  /\ UiIdle
  /\ skCall = None
  /\ lib \in {[fn |-> "simulateDepth", n |-> n, layerIdx |-> 0, pc |-> "loop",
               compositeMatrix |-> eye(n), Hs |-> <<>>, composite |-> <<>>] :
                n \in 1..MaxDsN}

\* lines 65-85 with H given: compositeMatrix = matmul(H, compositeMatrix) and
\* its metrics pushed
DsLayer ==
  /\ lib.pc = "loop"
  /\ lib.layerIdx < MaxDsDepth
  /\ \E H \in DsLayers(lib.n) :
       \E c \in {UpdateComposite(H, lib.compositeMatrix)} :
         lib' = [lib EXCEPT !.layerIdx = @ + 1, !.compositeMatrix = c,
                            !.Hs = Append(@, H),
                            !.composite =
                               Append(@, CompositeRecord(lib.layerIdx, c))]
  /\ UNCHANGED <<simVars, skCall, uiVars>>

\* the loop ends
DsReturn ==
  /\ lib.pc = "loop"
  /\ lib.layerIdx >= 1
  /\ lib' = [lib EXCEPT !.pc = "done"]
  /\ UNCHANGED <<simVars, skCall, uiVars>>

DsStep == DsLayer \/ DsReturn

SpecDs == DsInit /\ [][DsStep]_vars

(***************************************************************************)
(* distanceFromUniform and spectralNorm (metrics.ts), each called on a     *)
(* matrix from an idle client; spectralNorm runs one power-iteration round *)
(* per step.                                                               *)
(***************************************************************************)
MaxMetN == 3

\* const uniformVal = 1 / n
uniformValSquared(n) == QDiv(ONE, <<n * n * ONE, 1>>)

uniformVal(n) == QDiv(ONE, <<n * ONE, 1>>)

RECURSIVE SumSqFrom(_, _, _, _)
\* sumSq += diff * diff over the entries in row-major order, from entry k
SumSqFrom(matrix, u, k, sumSq) ==
  IF k > Len(matrix) * Len(matrix) THEN sumSq
  ELSE SumSqFrom(matrix, u, k + 1,
                 NAdd(sumSq,
                      NMul(NSub(Cell(matrix, ((k - 1) \div Len(matrix)) + 1,
                                     ((k - 1) % Len(matrix)) + 1), u),
                           NSub(Cell(matrix, ((k - 1) \div Len(matrix)) + 1,
                                     ((k - 1) % Len(matrix)) + 1), u))))

distanceFromUniform(matrix) ==
  NSqrt(SumSqFrom(matrix, uniformVal(Len(matrix)), 1, 0))

\* Math.sin(i + 1) for i = 0 .. 7
SinTable ==
  <<3529385, 3813870, 591900, 0 - 3174260, 0 - 4022020, 0 - 1171954, 2755602,
    4149669>>

\* the default of the parameter iterations
iterations == 20

RECURSIVE SumSquares(_, _, _)
SumSquares(v, k, acc) ==
  IF k > Len(v) THEN acc ELSE SumSquares(v, k + 1, NAdd(acc, NMul(v[k], v[k])))

\* Math.sqrt(v.reduce((a, b) => a + b * b, 0))
VecNorm(v) == NSqrt(SumSquares(v, 1, 0))

\* v.map((x) => x / norm)
Scaled(v, norm) == Tab(Len(v), LAMBDA i : QDiv(v[i], <<norm, 1>>))

\* w[i] += matrix[i][j] * v[j] over j, from 0
MatVec(matrix, v) == Tab(Len(matrix), LAMBDA i : DotAcc(matrix[i], v, 1, 0))

\* the start vector, normalized
StartVector(n) ==
  Scaled(Tab(n, LAMBDA i : SinTable[i]), VecNorm(Tab(n, LAMBDA i : SinTable[i])))

NormVanishedNever(norm) == FALSE

\* norm < 1e-10
NormVanished(norm) == LtTiny(norm)

\* the matrix whose every entry is 1 / n
Uniform(n) == Mat(n, n, LAMBDA i, j : QDiv(ONE, <<n * ONE, 1>>))

MetInputs ==
  EigInputs
  \cup {Uniform(n) : n \in 1..MaxMetN}
  \cup {<<<<0, ONE>>, <<0, 0>>>>,
        <<<<0, ONE, 0>>, <<0, 0, ONE>>, <<0, 0, 0>>>>,
        <<<<2 * ONE, 0 - ONE>>, <<3 * ONE, ONE \div 2>>>>}

MetInit ==
  /\ cfg = DefaultConfig
  /\ SimIdle
  /\ UiIdle
  /\ skCall = None
  /\ lib = None

MetDistance ==
  /\ lib = None
  /\ \E m \in MetInputs :
       lib' = [fn |-> "distanceFromUniform", matrix |-> m,
               out |-> distanceFromUniform(m)]
  /\ UNCHANGED <<simVars, skCall, uiVars>>

\* lines 209-216: the start vector
SnCall ==
  /\ lib = None
  /\ \E m \in MetInputs :
       lib' = [fn |-> "spectralNorm", matrix |-> m, pc |-> "loop", iter |-> 0,
               v |-> StartVector(Len(m)), w |-> None, norm |-> None,
               early |-> FALSE, divisions |-> 0, out |-> None]
  /\ UNCHANGED <<simVars, skCall, uiVars>>

\* lines 218-230: one round
SnRound ==
  /\ lib # None /\ lib.fn = "spectralNorm" /\ lib.pc = "loop"
  /\ lib.iter < iterations
  /\ \E w \in {MatVec(lib.matrix, lib.v)} :
       \E norm \in {VecNorm(w)} :
         IF NormVanished(norm)
         THEN lib' = [lib EXCEPT !.pc = "done", !.w = w, !.norm = norm,
                                 !.early = TRUE, !.out = 0]
         ELSE lib' = [lib EXCEPT !.w = w, !.norm = norm,
                                 !.v = Scaled(w, norm), !.divisions = @ + 1,
                                 !.iter = @ + 1]
  /\ UNCHANGED <<simVars, skCall, uiVars>>

\* lines 232-239: the final estimate
SnReturn ==
  /\ lib # None /\ lib.fn = "spectralNorm" /\ lib.pc = "loop"
  /\ ~(lib.iter < iterations)
  /\ lib' = [lib EXCEPT !.pc = "done",
                        !.out = VecNorm(MatVec(lib.matrix, lib.v))]
  /\ UNCHANGED <<simVars, skCall, uiVars>>

MetStep ==
  \/ MetDistance
  \/ SnCall
  \/ SnRound
  \/ SnReturn

SpecMet == MetInit /\ [][MetStep]_vars

\* the call is straight-line code on one thread: a step that can be taken is
\* taken
SpecEigFair == SpecEig /\ WF_vars(EigStep)

(***************************************************************************)
(* The page: ManifoldDial.tsx.  dial holds the component's hooks (config,  *)
(* results, isComputing, selectedLayer, isPlaying), the 10 ms timers that  *)
(* runSimulation has started and that have not fired yet, oldest first,    *)
(* and whether config is the DEFAULT_CONFIG object itself.                 *)
(***************************************************************************)
DEFAULT_CONFIG == [depth |-> 64, n |-> 4, sinkhornIters |-> 20, seed |-> 42]

PRESETS ==
  <<[depth |-> 64, n |-> 4, sinkhornIters |-> 20, seed |-> 42],
    [depth |-> 64, n |-> 4, sinkhornIters |-> 0, seed |-> 42],
    [depth |-> 64, n |-> 4, sinkhornIters |-> 5, seed |-> 42],
    [depth |-> 200, n |-> 4, sinkhornIters |-> 20, seed |-> 42],
    [depth |-> 64, n |-> 8, sinkhornIters |-> 20, seed |-> 42]>>

\* timers that may be pending at once
MaxPending == 2

\* positions the user drags the Sinkhorn slider to (min 0, max 30, step 1)
SliderStops == {0, 15, 29, 30}

\* positions of the depth slider (min 10, max 200, step 10)
DepthStops == {10}

\* options of the streams select
StreamOptions == {2}

\* what Math.floor(Math.random() * 10000) returns
RandomSeeds == {7}

\* positions of the layer slider (min 0, max depth - 1)
LayerStops == {0}

Keys == {"ArrowLeft", "ArrowRight", "ArrowUp", "ArrowDown", " ", "r", "R", "?"}

\* the value of runComparison(depth, n, sinkhornIters, seed): a function of
\* its four arguments
ComparisonOf(c) ==
  [fn |-> "runComparison", depth |-> c.depth, n |-> c.n,
   sinkhornIters |-> c.sinkhornIters, seed |-> c.seed]

MathMax(a, b) == IF a >= b THEN a ELSE b

MathMinSecond(a, b) == b

MathMin(a, b) == IF a <= b THEN a ELSE b

\* a timer put in front of the ones that are waiting
runSimulationFirst(d) ==
  [d EXCEPT !.isComputing = TRUE, !.timers = <<d.config>> \o @]

\* lines 52-68 up to the setTimeout call: the callback closes over config
runSimulation(d) ==
  [d EXCEPT !.isComputing = TRUE, !.timers = Append(@, d.config)]

\* setConfig with a new object, the render and the effect of lines 98-101
setConfig(d, c) ==
  runSimulation([d EXCEPT !.config = c, !.isDefaultObject = FALSE])

\* lines 176-179
PlayFrom(c) ==
  IF c.sinkhornIters >= 30 THEN [c EXCEPT !.sinkhornIters = 0] ELSE c

\* the updater of lines 153-160 with no stop: every tick adds one
TickAlways(c) == [c EXCEPT !.sinkhornIters = @ + 1]

\* the updater of lines 153-160: the next config, the same one to stop
Tick(c) ==
  IF c.sinkhornIters >= 30 THEN c ELSE [c EXCEPT !.sinkhornIters = @ + 1]

\* the mounted component: useState initialisers and the first run of the
\* effect of lines 98-101
Mounted(c) ==
  runSimulation([config |-> c, isDefaultObject |-> FALSE, results |-> None,
                 isComputing |-> FALSE, selectedLayer |-> 0,
                 isPlaying |-> FALSE, timers |-> <<>>])

\* what urlToConfig(DEFAULT_CONFIG) gives for the page's URL
StartConfigs ==
  {[DEFAULT_CONFIG EXCEPT !.sinkhornIters = k] : k \in {0, 20, 30}}

\* ... including URLs written by hand
AnyStartConfigs ==
  StartConfigs \cup {[DEFAULT_CONFIG EXCEPT !.sinkhornIters = k] : k \in {31, 50}}

CanSchedule == Len(dial.timers) < MaxPending

DialInit ==
  /\ cfg = DefaultConfig
  /\ SimIdle
  /\ skCall = None
  /\ lib = None
  /\ tour = None
  /\ dial \in {Mounted(c) : c \in StartConfigs}

\* lines 55-66: the timer's callback
TimerFire ==
  /\ dial.timers # <<>>
  /\ \E c \in {Head(dial.timers)} :
       dial' = [dial EXCEPT !.results = ComparisonOf(c),
                            !.selectedLayer = c.depth - 1,
                            !.isComputing = FALSE,
                            !.timers = Tail(@)]
  /\ UNCHANGED <<simVars, skCall, lib, tour>>

\* lines 71-75
randomizeSeed ==
  /\ CanSchedule
  /\ \E newSeed \in RandomSeeds :
       dial' = setConfig(dial, [dial.config EXCEPT !.seed = newSeed])

\* lines 77-91; the URL it rewrites 500 ms later is not part of dial
handleConfigChange(newConfig) ==
  /\ CanSchedule
  /\ dial' = setConfig(dial, newConfig)

\* both Sinkhorn sliders: Controls and StickySinkhornControl 48-56
SinkhornSlider ==
  /\ \E value \in SliderStops :
       handleConfigChange([dial.config EXCEPT !.sinkhornIters = value])
  /\ UNCHANGED <<simVars, skCall, lib, tour>>

DepthSlider ==
  /\ \E value \in DepthStops :
       handleConfigChange([dial.config EXCEPT !.depth = value])
  /\ UNCHANGED <<simVars, skCall, lib, tour>>

StreamsSelect ==
  /\ \E value \in StreamOptions :
       handleConfigChange([dial.config EXCEPT !.n = value])
  /\ UNCHANGED <<simVars, skCall, lib, tour>>

\* parseInt(e.target.value) || 42
SeedInput ==
  /\ \E value \in RandomSeeds \cup {0} :
       handleConfigChange([dial.config EXCEPT
                             !.seed = IF value = 0 THEN 42 ELSE value])
  /\ UNCHANGED <<simVars, skCall, lib, tour>>

handlePreset ==
  /\ \E i \in 1..Len(PRESETS) : handleConfigChange(PRESETS[i])
  /\ UNCHANGED <<simVars, skCall, lib, tour>>

\* the Randomize Seed button is disabled while isComputing
RandomizeButton ==
  /\ ~dial.isComputing
  /\ randomizeSeed
  /\ UNCHANGED <<simVars, skCall, lib, tour>>

LayerSlider ==
  /\ \E value \in LayerStops : dial' = [dial EXCEPT !.selectedLayer = value]
  /\ UNCHANGED <<simVars, skCall, lib, tour>>

\* lines 147-169: the interval exists while isPlaying
PlaybackTick ==
  /\ dial.isPlaying
  /\ IF dial.config.sinkhornIters >= 30
     THEN dial' = [dial EXCEPT !.isPlaying = FALSE, !.config = Tick(@)]
     ELSE /\ CanSchedule
          /\ dial' = setConfig(dial, Tick(dial.config))
  /\ UNCHANGED <<simVars, skCall, lib, tour>>

\* lines 171-182
handlePlayToggle ==
  /\ IF dial.isPlaying
     THEN dial' = [dial EXCEPT !.isPlaying = FALSE]
     ELSE IF dial.config.sinkhornIters >= 30
          THEN /\ CanSchedule
               /\ dial' = [setConfig(dial, PlayFrom(dial.config))
                             EXCEPT !.isPlaying = TRUE]
          ELSE dial' = [dial EXCEPT !.isPlaying = TRUE]
  /\ UNCHANGED <<simVars, skCall, lib, tour>>

\* lines 185-234: the listener's body for one keydown event; typing says
\* that the event's target is an input or a textarea
KeyDown(key, typing) ==
  IF typing \/ key = "?"
  THEN dial' = dial
  ELSE CASE key = "ArrowLeft" ->
              /\ CanSchedule
              /\ dial' = setConfig(dial, [dial.config EXCEPT !.sinkhornIters =
                                            MathMax(0, @ - 1)])
         [] key = "ArrowRight" ->
              /\ CanSchedule
              /\ dial' = setConfig(dial, [dial.config EXCEPT !.sinkhornIters =
                                            MathMin(30, @ + 1)])
         [] key = "ArrowUp" ->
              /\ CanSchedule
              /\ dial' = setConfig(dial, [dial.config EXCEPT !.sinkhornIters =
                                            MathMin(30, @ + 5)])
         [] key = "ArrowDown" ->
              /\ CanSchedule
              /\ dial' = setConfig(dial, [dial.config EXCEPT !.sinkhornIters =
                                            MathMax(0, @ - 5)])
         [] key = " " -> randomizeSeed
         [] key \in {"r", "R"} ->
              IF dial.isDefaultObject
              THEN dial' = dial
              ELSE /\ CanSchedule
                   /\ dial' = [setConfig(dial, DEFAULT_CONFIG)
                                 EXCEPT !.isDefaultObject = TRUE]

\* lines 184-239
handleKeyDown ==
  /\ \E key \in Keys, typing \in BOOLEAN : KeyDown(key, typing)
  /\ UNCHANGED <<simVars, skCall, lib, tour>>

\* what the user does
DialEvent ==
  \/ SinkhornSlider
  \/ DepthSlider
  \/ StreamsSelect
  \/ SeedInput
  \/ handlePreset
  \/ RandomizeButton
  \/ LayerSlider
  \/ handlePlayToggle
  \/ handleKeyDown

DialStep ==
  \/ DialEvent
  \/ PlaybackTick
  \/ TimerFire

SpecDial == DialInit /\ [][DialStep]_vars

\* the page opened with any URL
PlaybackInit ==
  /\ cfg = DefaultConfig
  /\ SimIdle
  /\ skCall = None
  /\ lib = None
  /\ tour = None
  /\ dial \in {Mounted(c) : c \in AnyStartConfigs}

\* the user sets the page up and presses play, then leaves the page alone
\* until playback has stopped
HandsOff == ~dial.isPlaying /\ DialEvent

PlaybackStep ==
  \/ HandsOff
  \/ PlaybackTick
  \/ TimerFire

\* setInterval and setTimeout callbacks that are due run
SpecPlayback ==
  /\ PlaybackInit
  /\ [][PlaybackStep]_vars
  /\ WF_vars(PlaybackTick)
  /\ WF_vars(TimerFire)

(***************************************************************************)
(* Sharing: configToUrl and urlToConfig of lib/utils.ts.  A string is the  *)
(* sequence of its characters; the query is the URLSearchParams record of  *)
(* its four parameters, null (None) for a parameter that is absent.        *)
(***************************************************************************)
DigitChars == <<"0", "1", "2", "3", "4", "5", "6", "7", "8", "9">>

RECURSIVE NatString(_)
NatString(x) ==
  IF x < 10 THEN <<DigitChars[x + 1]>>
  ELSE NatString(x \div 10) \o <<DigitChars[(x % 10) + 1]>>

\* Number.prototype.toString of an integer below 1e21
toString(x) == IF x < 0 THEN <<"-">> \o NatString(0 - x) ELSE NatString(x)

DigitValue(ch) == CHOOSE d \in 0..9 : DigitChars[d + 1] = ch

IsDigit(ch) == \E d \in 0..9 : DigitChars[d + 1] = ch

RECURSIVE SkipSpaces(_)
SkipSpaces(s) ==
  IF s # <<>> /\ Head(s) = " " THEN SkipSpaces(Tail(s)) ELSE s

\* the digits s starts with, read as a number; acc is the value so far
RECURSIVE DigitsFrom(_, _)
DigitsFrom(s, acc) ==
  IF s # <<>> /\ IsDigit(Head(s))
  THEN DigitsFrom(Tail(s), 10 * acc + DigitValue(Head(s)))
  ELSE acc

Unsigned(s) ==
  IF s # <<>> /\ IsDigit(Head(s)) THEN DigitsFrom(s, 0) ELSE NaN

\* parseInt(s) in radix 10: blanks, a sign, then digits up to the first
\* character that is not one
parseInt(s) ==
  LET t == SkipSpaces(s)
  IN  IF t # <<>> /\ Head(t) = "-"
      THEN (IF Unsigned(Tail(t)) = NaN THEN NaN ELSE 0 - Unsigned(Tail(t)))
      ELSE IF t # <<>> /\ Head(t) = "+" THEN Unsigned(Tail(t))
      ELSE Unsigned(t)

\* x || y on a string: null and '' are falsy
OrEmpty(x) == IF x = None THEN <<>> ELSE x

\* x || y on a number: NaN and 0 are falsy
OrNumber(x, y) == IF x = NaN \/ x = 0 THEN y ELSE x

\* lines 24-32: the query of the URL it returns
configToUrl(config) ==
  [depth |-> toString(config.depth),
   n |-> toString(config.n),
   sinkhornIters |-> toString(config.sinkhornIters),
   seed |-> toString(config.seed)]

\* lines 37-46, params being the query of window.location
urlToConfig(params, defaultConfig) ==
  [depth |-> OrNumber(parseInt(OrEmpty(params.depth)), defaultConfig.depth),
   n |-> OrNumber(parseInt(OrEmpty(params.n)), defaultConfig.n),
   sinkhornIters |-> OrNumber(parseInt(OrEmpty(params.sinkhornIters)),
                              defaultConfig.sinkhornIters),
   seed |-> OrNumber(parseInt(OrEmpty(params.seed)), defaultConfig.seed)]

\* configs that are shared and defaults they are read against
UrlConfigs ==
  [depth : {1, 64, 200}, n : {1, 4}, sinkhornIters : {0, 1, 20, 30},
   seed : {0 - 5, 0, 42, 9999}]

UrlDefaults == {DEFAULT_CONFIG, [depth |-> 10, n |-> 2, sinkhornIters |-> 0, seed |-> 0]}

\* parameter values of URLs written by hand
TypedValues ==
  {None, <<>>, <<"a", "b", "c">>, <<"1", "2", "p", "x">>, <<" ", "7">>,
   <<"+", "3">>, <<"-">>, <<"0">>, <<"-", "0">>, <<"0", "8">>}

UrlInit ==
  /\ cfg = DefaultConfig
  /\ SimIdle
  /\ skCall = None
  /\ dial = None
  /\ tour = None
  /\ lib \in [config : UrlConfigs, defaultConfig : UrlDefaults, pc : {"shown"},
              params : {None}, parsed : {None}]

\* ManifoldDial.tsx 241-249: the link that is copied
handleCopyUrl ==
  /\ lib.pc = "shown"
  /\ lib' = [lib EXCEPT !.pc = "copied", !.params = configToUrl(lib.config)]
  /\ UNCHANGED <<simVars, skCall, uiVars>>

\* a link with one parameter changed by hand
UrlEdited ==
  /\ lib.pc = "copied"
  /\ \E k \in {"depth", "n", "sinkhornIters", "seed"}, v \in TypedValues :
       lib' = [lib EXCEPT !.pc = "edited", !.params[k] = v]
  /\ UNCHANGED <<simVars, skCall, uiVars>>

\* ManifoldDial.tsx 32-34: the page opened with the link
UrlOpened ==
  /\ lib.pc \in {"copied", "edited"}
  /\ lib' = [lib EXCEPT !.pc = IF lib.pc = "copied" THEN "opened" ELSE "openedEdited",
                        !.parsed = urlToConfig(lib.params, lib.defaultConfig)]
  /\ UNCHANGED <<simVars, skCall, uiVars>>

UrlStep == handleCopyUrl \/ UrlEdited \/ UrlOpened

SpecUrl == UrlInit /\ [][UrlStep]_vars

(***************************************************************************)
(* The guided tour: TourOverlay (currentStep) and the tour hooks of        *)
(* ManifoldDial (isTourActive, the localStorage key, the auto-start        *)
(* timer).  TourOverlay is mounted once with the page and renders nothing  *)
(* while isActive is false.                                                *)
(***************************************************************************)
TOUR_STEPS ==
  <<"sinkhorn-slider", "gain-chart", "presets", "play-button", "chart-tabs">>

TourKeys == {"Escape", "ArrowRight", "Enter", "ArrowLeft"}

\* ManifoldDial.tsx 116-124: handleTourClose and handleTourComplete
TourEnded(t) == [t EXCEPT !.isTourActive = FALSE, !.completed = TRUE]

\* lines 90-96
handleNext(t) ==
  IF t.currentStep < Len(TOUR_STEPS) - 1
  THEN [t EXCEPT !.currentStep = @ + 1]
  ELSE TourEnded(t)

\* lines 98-102
handlePrev(t) ==
  IF t.currentStep > 0 THEN [t EXCEPT !.currentStep = @ - 1] ELSE t

\* lines 104-106
handleSkip(t) == TourEnded(t)

\* ManifoldDial.tsx 126-128
handleStartTour(t) == [t EXCEPT !.isTourActive = TRUE]

\* lines 112-120: the listener's body
TourKeyDown(t, key) ==
  CASE key = "Escape" -> handleSkip(t)
    [] key \in {"ArrowRight", "Enter"} -> handleNext(t)
    [] key = "ArrowLeft" -> handlePrev(t)
    [] OTHER -> t

\* useState(0), useState(false) and the effect of ManifoldDial.tsx 103-114:
\* the timer is started when localStorage has no key
TourMounted(completed) ==
  [currentStep |-> 0, isTourActive |-> FALSE, completed |-> completed,
   autoStart |-> ~completed]

TourInit ==
  /\ cfg = DefaultConfig
  /\ SimIdle
  /\ skCall = None
  /\ lib = None
  /\ dial = Mounted(DEFAULT_CONFIG)
  /\ tour \in {TourMounted(completed) : completed \in BOOLEAN}

\* ManifoldDial.tsx 108-110: the 1000 ms timer
TourAutoStart ==
  /\ tour.autoStart
  /\ tour' = [handleStartTour(tour) EXCEPT !.autoStart = FALSE]
  /\ UNCHANGED <<simVars, skCall, lib, dial>>

\* the Tour button
TourButtonClick ==
  /\ tour' = handleStartTour(tour)
  /\ UNCHANGED <<simVars, skCall, lib, dial>>

\* lines 246-262: Next or Finish
TourNextClick ==
  /\ tour.isTourActive
  /\ tour' = handleNext(tour)
  /\ UNCHANGED <<simVars, skCall, lib, dial>>

\* lines 239-246: rendered when currentStep > 0
TourBackClick ==
  /\ tour.isTourActive
  /\ tour.currentStep > 0
  /\ tour' = handlePrev(tour)
  /\ UNCHANGED <<simVars, skCall, lib, dial>>

\* lines 184, 206-211, 231-236: the backdrop, the X and Skip tour
TourSkipClick ==
  /\ tour.isTourActive
  /\ tour' = handleSkip(tour)
  /\ UNCHANGED <<simVars, skCall, lib, dial>>

\* one keydown on window: ManifoldDial's listener, and TourOverlay's while
\* the tour is active (lines 108-126)
WindowKeyDown ==
  /\ \E key \in Keys \cup TourKeys, typing \in BOOLEAN :
       /\ IF key \in Keys THEN KeyDown(key, typing) ELSE dial' = dial
       /\ tour' = IF tour.isTourActive THEN TourKeyDown(tour, key) ELSE tour
  /\ UNCHANGED <<simVars, skCall, lib>>

\* the simulation timers of the page
TourPageTimer ==
  /\ TimerFire
  /\ tour' = tour

TourStep ==
  \/ TourAutoStart
  \/ TourButtonClick
  \/ TourNextClick
  \/ TourBackClick
  \/ TourSkipClick
  \/ WindowKeyDown
  \/ TourPageTimer

SpecTour == TourInit /\ [][TourStep]_vars

(***************************************************************************)
(* Properties of the engine.                                               *)
(***************************************************************************)

\* every run that has returned: its result and what the model kept of it
Finished ==
  (IF result = None THEN {} ELSE {[res |-> result, tr |-> traces]})
  \cup (IF comparison = None THEN {}
        ELSE {[res |-> comparison.results[k], tr |-> comparison.traces[k]] :
                k \in 1..Len(comparison.results)})
  \cup (IF cmp = None THEN {}
        ELSE {[res |-> cmp.results[k], tr |-> cmp.traces[k]] :
                k \in 1..Len(cmp.results)})

IsIdentity(A, n) ==
  /\ Len(A) = n
  /\ \A i \in 1..n : /\ Len(A[i]) = n
                     /\ \A j \in 1..n : A[i][j] = (IF i = j THEN ONE ELSE 0)

\* C1: with method baseline the composite matrix is the identity after every
\* layer, and every composite record has forwardGain exactly 1.
BaselineCompositeIsIdentity ==
  /\ (pc = "loop" /\ frame.method = "baseline") =>
       /\ IsIdentity(frame.compositeMatrix, frame.n)
       /\ Len(frame.composite) = frame.layerIdx
       /\ \A k \in 1..Len(frame.composite) : frame.composite[k].forwardGain = ONE
  /\ \A r \in Finished : r.res.method = "baseline" =>
       /\ IsIdentity(r.tr.compositeMatrix, r.res.n)
       /\ Len(r.res.composite) = r.res.depth
       /\ \A k \in 1..Len(r.res.composite) : r.res.composite[k].forwardGain = ONE

BaselineRunFinished ==
  \E r \in Finished : /\ r.res.method = "baseline"
                      /\ r.res.depth >= 2
                      /\ r.res.n >= 2
                      /\ Len(r.res.composite) = r.res.depth

RECURSIVE LeftProduct(_, _, _)
\* H_L x ( ... x (H_1 x (H_0 x I)))
LeftProduct(Hs, L, n) ==
  IF L = 0 THEN eye(n) ELSE matmul(Hs[L], LeftProduct(Hs, L - 1, n))

RECURSIVE RightProduct(_, _, _)
\* ((I x H_0) x H_1) ... x H_L
RightProduct(Hs, L, n) ==
  IF L = 0 THEN eye(n) ELSE matmul(RightProduct(Hs, L - 1, n), Hs[L])

\* C2: the composite after layer L is H_L x ... x H_0 (each new layer on the
\* left, never H_0 x ... x H_L), the layer's record is pushed before the
\* composite's, and the composite record is computed on the updated product.
CompositeIsLeftProduct ==
  pc = "loop" =>
    /\ Len(frame.Hs) = frame.layerIdx
    /\ Len(frame.perLayer) = frame.layerIdx
    /\ Len(frame.composite) = frame.layerIdx
    /\ frame.compositeMatrix = LeftProduct(frame.Hs, frame.layerIdx, frame.n)
    /\ (LeftProduct(frame.Hs, frame.layerIdx, frame.n)
          # RightProduct(frame.Hs, frame.layerIdx, frame.n)
        => frame.compositeMatrix # RightProduct(frame.Hs, frame.layerIdx, frame.n))
    /\ \A L \in 1..frame.layerIdx :
         /\ frame.perLayer[L] = [layer |-> L - 1] @@ computeAllMetrics(frame.Hs[L])
         /\ frame.composite[L] =
              [uptoLayer |-> L - 1]
                @@ computeAllMetrics(LeftProduct(frame.Hs, L, frame.n))
         /\ frame.log[2 * L - 1] = <<"perLayer", L - 1>>
         /\ frame.log[2 * L] = <<"composite", L - 1>>

OrderOfProductMatters ==
  /\ pc = "loop"
  /\ frame.layerIdx >= 2
  /\ LeftProduct(frame.Hs, frame.layerIdx, frame.n)
       # RightProduct(frame.Hs, frame.layerIdx, frame.n)
  /\ computeAllMetrics(LeftProduct(frame.Hs, frame.layerIdx, frame.n))
       # computeAllMetrics(LeftProduct(frame.Hs, frame.layerIdx - 1, frame.n))

\* C3: with the same n, seed and k >= 1, the mhc matrix of every layer is the
\* projection of the hc matrix of that layer: both runs drew the same random
\* matrix.
MatchedRandomMatrices ==
  \A a \in Finished : \A b \in Finished :
    (a.res.method = "hc" /\ b.res.method = "mhc" /\ b.res.sinkhornIters >= 1) =>
      /\ Len(a.tr.Hs) = a.res.depth
      /\ Len(b.tr.Hs) = b.res.depth
      /\ \A L \in 1..a.res.depth :
           /\ b.tr.Ms[L] = a.tr.Hs[L]
           /\ b.tr.Hs[L] = sinkhornKnopp(a.tr.Hs[L], b.res.sinkhornIters)

ProjectedComparisonFinished ==
  /\ comparison # None
  /\ cfg.sinkhornIters >= 1 /\ cfg.depth >= 2 /\ cfg.n >= 2
  /\ comparison.traces[3].Hs # comparison.traces[2].Hs
  /\ comparison.traces[3].Hs[1] # comparison.traces[3].Hs[2]

\* C4: with sinkhornIters = 0 the mhc run returns the random matrices
\* themselves, so its records equal the hc run's, and sinkhornKnopp is never
\* called with 0 iterations by the simulator.
ZeroIterationsBypass ==
  /\ \A a \in Finished : \A b \in Finished :
       (a.res.method = "hc" /\ b.res.method = "mhc" /\ b.res.sinkhornIters = 0) =>
         /\ b.res = [a.res EXCEPT !.method = "mhc"]
         /\ b.tr.Hs = a.tr.Hs
  /\ \A r \in Finished : \A k \in 1..Len(r.tr.sk) : r.tr.sk[k] # 0
  /\ pc = "loop" => \A k \in 1..Len(frame.sk) : frame.sk[k] # 0
  /\ \A r \in Finished :
       Len(r.tr.sk) = (IF r.res.method = "mhc" /\ r.res.sinkhornIters >= 1
                       THEN r.res.depth ELSE 0)

UnprojectedComparisonFinished ==
  /\ comparison # None
  /\ cfg.sinkhornIters = 0 /\ cfg.depth >= 2 /\ cfg.n >= 2
  /\ comparison.results[3].method = "mhc"
  /\ comparison.results[3].perLayer = comparison.results[2].perLayer
  /\ comparison.traces[3].sk = <<>>

\* C5: a result echoes its five arguments, perLayer and composite have
\* exactly depth records whose layer and uptoLayer are 0..depth-1 in order,
\* and runComparison returns one such result per method for the same
\* arguments.
ResultShape(res) ==
  /\ res.depth = cfg.depth /\ res.n = cfg.n
  /\ res.sinkhornIters = cfg.sinkhornIters /\ res.seed = cfg.seed
  /\ Len(res.perLayer) = res.depth
  /\ Len(res.composite) = res.depth
  /\ \A L \in 1..res.depth : /\ res.perLayer[L].layer = L - 1
                             /\ res.composite[L].uptoLayer = L - 1

ResultsEchoArguments ==
  /\ \A r \in Finished : ResultShape(r.res)
  /\ (result # None /\ pc = "idle" /\ entry.fn = "simulateDepth") =>
       result.method = entry.method
  /\ comparison # None =>
       /\ Len(comparison.results) = 3
       /\ comparison.results[1].method = "baseline"
       /\ comparison.results[2].method = "hc"
       /\ comparison.results[3].method = "mhc"

AllShapesReturned ==
  /\ comparison # None /\ result # None
  /\ pc = "idle" /\ entry.fn = "simulateDepth"
  /\ cfg.depth >= 3
  /\ result.method = "mhc"

RECURSIVE AdvanceSeed(_, _)
\* the seed word after k additions of the increment
AdvanceSeed(w, k) == IF k = 0 THEN w ELSE AdvanceSeed(WAdd(w, Increment), k - 1)

\* the k-th output (k >= 1) of a generator made from seed, from seed and k alone
KthOutput(seed, k) == MixFirst(AdvanceSeed(mulberry32(seed).seed, k), k - 1).u

\* C6: the k-th output of a generator depends only on its seed and k, two
\* generators made from the same seed give the same sequence however their
\* draws interleave, and every run's result is the result of that run alone.
GeneratorsIndependent ==
  /\ \A i \in Clients : \A k \in 1..Len(outs[i]) :
       outs[i][k] = KthOutput(cfg.seed, k)
  /\ \A i \in Clients : \A j \in Clients : \A k \in 1..Len(outs[i]) :
       k <= Len(outs[j]) => outs[i][k] = outs[j][k]
  /\ \A r \in Finished :
       r.res = simulateDepth(r.res.depth, r.res.n, r.res.method,
                             r.res.sinkhornIters, r.res.seed)
  /\ sample # None =>
       sample.matrix = getSampleMatrix(cfg.n, sample.method, cfg.sinkhornIters,
                                       cfg.seed)

InterleavedDrawsAfterRuns ==
  /\ Len(outs["A"]) = 2 /\ Len(outs["B"]) = 1
  /\ outs["A"][1] # outs["A"][2]
  /\ calls = 2
  /\ result # None /\ result.method = "hc"
  /\ comparison # None

\* C7: getSampleMatrix returns the layer-0 matrix of the simulateDepth run with
\* the same arguments, which is also the composite matrix of a depth-1 run.
SampleIsLayerZero ==
  sample # None =>
    \A r \in Finished : r.res.method = sample.method =>
      /\ sample.matrix = r.tr.Hs[1]
      /\ r.res.depth = 1 => r.tr.compositeMatrix = sample.matrix

SampleAndDepthOneRun ==
  /\ sample # None /\ result # None
  /\ sample.method = "mhc" /\ result.method = "mhc"
  /\ cfg.depth = 1 /\ cfg.n >= 2 /\ cfg.sinkhornIters >= 1
  /\ traces.compositeMatrix = sample.matrix

\* C8: a run of hc or mhc (sinkhornIters = 0 included) advances its generator
\* by exactly one random matrix, n * n normal draws of two uniform draws each,
\* per layer; a baseline run never advances it.
DrawsPerLayer ==
  /\ pc = "loop" =>
       /\ frame.rng.calls = (IF frame.method = "baseline" THEN 0
                             ELSE 2 * frame.n * frame.n * frame.layerIdx)
       /\ frame.rng.seed = AdvanceSeed(mulberry32(frame.seed).seed, frame.rng.calls)
       /\ Len(frame.Ms) = frame.layerIdx
       /\ \A L \in 1..frame.layerIdx :
            (frame.Ms[L] = None) <=> (frame.method = "baseline")
  /\ \A r \in Finished :
       r.tr.calls = (IF r.res.method = "baseline" THEN 0
                     ELSE 2 * r.res.n * r.res.n * r.res.depth)

UnprojectedLayersDrawn ==
  /\ pc = "loop"
  /\ frame.method = "mhc" /\ frame.sinkhornIters = 0
  /\ frame.layerIdx >= 2 /\ frame.n >= 2
  /\ frame.rng.calls = 8 * frame.layerIdx

(***************************************************************************)
(* Properties of sinkhornKnopp.                                            *)
(***************************************************************************)

DivisorAtLeastEps(d) == d = Eps \/ (d[2] = 1 /\ ~IsNaN(d[1]) /\ GeEps(d[1]))

Entries(P) == {P[i][j] : i \in 1..Len(P), j \in 1..Len(P)}

\* C9: sinkhornKnopp returns a matrix of the dimension of its input, every
\* entry is non-negative at every step, and every divisor is at least eps.
SinkhornWellDefined ==
  skCall.P # None =>
    /\ Len(skCall.P) = Len(skCall.matrix)
    /\ \A i \in 1..Len(skCall.P) : Len(skCall.P[i]) = Len(skCall.matrix[i])
    /\ \A x \in Entries(skCall.P) : ~IsNaN(x) /\ x >= 0 /\ x < Infinity
    /\ skCall.iter >= 1 =>
         \A i \in 1..Len(skCall.P) : /\ DivisorAtLeastEps(skCall.rowDivisors[i])
                                     /\ DivisorAtLeastEps(skCall.colDivisors[i])

EpsFloorUsed ==
  /\ skCall.pc = "done"
  /\ skCall.iter >= 1
  /\ Len(skCall.P) >= 2
  /\ \E i \in 1..Len(skCall.P) : skCall.rowDivisors[i] = Eps
  /\ \E j \in 1..Len(skCall.P) : skCall.colDivisors[j] # Eps

\* 1e-6
Tol == ONE \div 10^6

Within(s) == ~IsNaN(s) /\ Abs(s - ONE) <= Tol

\* C10: for every input matrix, after a large number of iterations (200) every
\* row sum and every column sum is within 1e-6 of 1 and every entry is
\* non-negative.
SinkhornLargeKDoublyStochastic ==
  (skCall.pc = "done" /\ skCall.iterations >= LargeK) =>
    /\ \A i \in 1..Len(skCall.P) : /\ Within(RowSums(skCall.P)[i])
                                   /\ Within(ColSums(skCall.P)[i])
    /\ \A x \in Entries(skCall.P) : ~IsNaN(x) /\ x >= 0

\* the largest entry of M, chosen among its entries
LargestEntry(M) == CHOOSE x \in Entries(M) : \A y \in Entries(M) : y <= x

\* the result of a call with 0 iterations: no round ran and P is the
\* element-wise exp(M[i][j] - max(M))
ExponentialReturned ==
  /\ skCall.iter = 0
  /\ skCall.rowDivisors = None /\ skCall.colDivisors = None
  /\ Len(skCall.P) = Len(skCall.input)
  /\ \A i \in 1..Len(skCall.input) : \A j \in 1..Len(skCall.input) :
       /\ skCall.P[i][j] = FExp(skCall.input[i][j] - LargestEntry(skCall.input))
       /\ skCall.P[i][j] <= ONE
       /\ skCall.input[i][j] = LargestEntry(skCall.input) => skCall.P[i][j] = ONE

\* C11 as stated: sinkhornKnopp(M, 0) runs no normalization round and returns
\* exp(M[i][j] - max(M)), which is not M itself, has every entry at most 1
\* and has exactly 1 where M has its maximum.
ZeroIterationsNeverReturnsInput ==
  (skCall.pc = "done" /\ skCall.iterations = 0) =>
    /\ ExponentialReturned
    /\ skCall.P # skCall.input

\* C11: sinkhornKnopp(M, 0) runs no normalization round and returns
\* exp(M[i][j] - max(M)), with every entry at most 1 and exactly 1 where M has
\* its maximum; it differs from M whenever the maximum of M is not 1, and
\* equals M when every entry of M is 1.
ZeroIterationsReturnsExponential ==
  (skCall.pc = "done" /\ skCall.iterations = 0) =>
    /\ ExponentialReturned
    /\ LargestEntry(skCall.input) # ONE => skCall.P # skCall.input
    /\ Entries(skCall.input) = {ONE} => skCall.P = skCall.input

ExponentialOfUnequalEntries ==
  /\ skCall.pc = "done" /\ skCall.iterations = 0
  /\ Len(skCall.input) >= 2
  /\ \E x \in Entries(skCall.P) : 0 < x /\ x < ONE
  /\ skCall.P # skCall.input

NormalAt(seed, d) == BoxMuller(KthOutput(seed, d + 1), KthOutput(seed, d + 2))

\* C19: randomMatrix(n, rng) advances the generator by exactly 2*n*n uniform
\* draws and fills entries in row-major order: entry (i, j), counted from 0,
\* is the Box-Muller value of draws 2*(i*n + j) and 2*(i*n + j) + 1 of that
\* call, none skipped or reused.
RandomMatrixDrawOrder ==
  (pc = "loop" /\ frame.method # "baseline") =>
    /\ frame.rng.calls = 2 * frame.n * frame.n * frame.layerIdx
    /\ \A L \in 1..frame.layerIdx :
         /\ Len(frame.Ms[L]) = frame.n
         /\ \A i \in 1..frame.n : \A j \in 1..frame.n :
              frame.Ms[L][i][j] =
                NormalAt(frame.seed, 2 * frame.n * frame.n * (L - 1)
                                       + 2 * ((i - 1) * frame.n + (j - 1)))

OffDiagonalDrawsDiffer ==
  /\ pc = "loop" /\ frame.method = "hc"
  /\ frame.n = 2 /\ frame.layerIdx >= 2
  /\ frame.Ms[1][1][2] # frame.Ms[1][2][1]
  /\ frame.Ms[2] # frame.Ms[1]

(***************************************************************************)
(* Properties of the functions called directly.                            *)
(***************************************************************************)

\* C14: matmul(A, B) fails with a DimensionMismatch error, and returns no
\* product, whenever A's number of columns differs from B's number of rows.
MatmulRejectsMismatch ==
  (lib # None /\ lib.fn = "matmul" /\ Len(lib.A[1]) # Len(lib.B)) =>
    /\ Thrown(lib.out)
    /\ lib.out.thrown = "DimensionMismatch"

\* C15: simulateDepth and runComparison raise InvalidConfig, and return no
\* result, when depth <= 0, n <= 0 or sinkhornIters < 0.
InvalidConfigRejected ==
  (/\ lib # None
   /\ lib.fn \in {"simulateDepth", "runComparison"}
   /\ (lib.depth <= 0 \/ lib.n <= 0 \/ lib.sinkhornIters < 0)) =>
    /\ Thrown(lib.out)
    /\ lib.out.thrown = "InvalidConfig"

IsSquare(H, n) ==
  /\ Len(H) = n
  /\ \A i \in 1..n : Len(H[i]) = n /\ \A j \in 1..n : ~IsNaN(H[i][j])

\* C16: generateResidualMatrix raises an error and returns no matrix for a
\* method tag other than baseline, hc and mhc, and returns a matrix without
\* raising for each of those three.
UnknownMethodRaises ==
  (lib # None /\ lib.fn = "generateResidualMatrix") =>
    IF lib.method \in {"baseline", "hc", "mhc"}
    THEN ~Thrown(lib.out) /\ IsSquare(lib.out.H, lib.n)
    ELSE Thrown(lib.out) /\ lib.out.thrown = "Error" /\ "H" \notin DOMAIN lib.out

UnknownMethodCalled ==
  /\ lib # None /\ lib.fn = "generateResidualMatrix"
  /\ lib.method = "HC" /\ lib.n = 2
  /\ Thrown(lib.out)

\* C18: every value a mulberry32 generator returns is u / 2^32 for an unsigned
\* 32-bit integer u in 0 .. 2^32 - 1, so it is at least 0 and less than 1.
UniformInUnitInterval ==
  (lib # None /\ lib.fn = "mulberry32" /\ lib.k >= 1) =>
    /\ lib.u[1] \in 0..(W16 - 1)
    /\ lib.u[2] \in 0..(W16 - 1)
    /\ lib.g.calls = lib.k

UpperHalfDrawn ==
  /\ lib # None /\ lib.fn = "mulberry32"
  /\ lib.seed < 0 /\ lib.k >= 2
  /\ lib.u[1] >= W16 \div 2

\* the call of eigenvaluesSorted has returned
EigReturned == lib # None /\ lib.fn = "eigenvaluesSorted" /\ lib.pc = "done"

NonIncreasing(eigs) ==
  \A k \in 1..(Len(eigs) - 1) :
    ~IsNaN(Magnitude(eigs[k])) /\ Magnitude(eigs[k]) >= Magnitude(eigs[k + 1])

\* xs and ys hold the same pairs, each as often
SamePairs(xs, ys) ==
  /\ Len(xs) = Len(ys)
  /\ \A e \in {xs[k] : k \in 1..Len(xs)} :
       Cardinality({k \in 1..Len(xs) : xs[k] = e})
         = Cardinality({k \in 1..Len(ys) : ys[k] = e})

\* C12: eigenvaluesSorted returns exactly n pairs for an n x n matrix: the scan
\* has pushed as many pairs as indices it has consumed (one for a real
\* eigenvalue, two for a 2x2 block), never passes n and never reads a row
\* past row n - 1, and the returned list is the scanned pairs in the order
\* of non-increasing magnitude.
EigenvaluesCountedAndOrdered ==
  /\ lib.rows \subseteq 0..(lib.n - 1)
  /\ lib.i <= lib.n
  /\ lib.pc \in {"qr", "scan"} => Len(lib.eigenvalues) = lib.i
  /\ EigReturned =>
       /\ Len(lib.eigenvalues) = lib.n
       /\ NonIncreasing(lib.eigenvalues)
       /\ SamePairs(lib.eigenvalues, lib.scanned)

\* a 3 x 3 call has returned whose scan took a real eigenvalue and then a
\* 2x2 block with a complex pair, and whose sort moved the pair to the front
BlockScannedAndReordered ==
  /\ EigReturned
  /\ lib.n = 3
  /\ lib.scanned[1].imag = 0
  /\ lib.scanned[2].imag # 0
  /\ lib.eigenvalues # lib.scanned
  /\ lib.eigenvalues[3] = lib.scanned[1]

\* C13: on the identity every QR round has Q = R = I and leaves A = I, so the
\* call returns n eigenvalues (1, 0), their largest magnitude is 1, and for
\* n >= 2 so is the second largest.
IdentityIsFixedPoint ==
  (lib.matrix = eye(lib.n)) =>
    /\ lib.A = eye(lib.n)
    /\ lib.iter >= 1 => lib.Q = eye(lib.n) /\ lib.R = eye(lib.n)
    /\ EigReturned =>
         /\ lib.eigenvalues = Tab(lib.n, LAMBDA k : [real |-> ONE, imag |-> 0])
         /\ largestEigenvalueMagnitude(lib.eigenvalues) = ONE
         /\ lib.n >= 2 => secondLargestEigenvalueMagnitude(lib.eigenvalues) = ONE

\* the call on the 3 x 3 identity has returned after all its rounds
IdentityCallReturned ==
  /\ EigReturned
  /\ lib.matrix = eye(3)
  /\ lib.iter = maxIters
  /\ Len(lib.eigenvalues) = 3

\* C20: with method mhc, n = 4, seed = 42 and sinkhornIters >= 15 the
\* composite forward gain is below 5.0 at every depth up to 64, and at depth
\* 64 the composite forward gain of hc for the same configuration is more
\* than 2^30 (about 10^9) times that of mhc.
ProjectedGainStaysBounded ==
  /\ (lib.pc # "done" /\ RegMethods[lib.m] = "mhc") =>
       /\ lib.e = 0
       /\ forwardGain(lib.composite) < 5 * ONE
  /\ lib.pc = "done" =>
       /\ lib.finals[3].method = "mhc" /\ lib.finals[3].e = 0
       /\ lib.finals[3].forwardGain < 5 * ONE
       /\ lib.finals[2].method = "hc" /\ lib.finals[2].e >= 30
       /\ lib.finals[2].forwardGain >= lib.finals[3].forwardGain

\* the three runs of depth 64 have returned
DepthSixtyFourCompared ==
  /\ lib.pc = "done"
  /\ lib.depth = 64 /\ lib.n = 4 /\ lib.seed = 42 /\ lib.sinkhornIters = 15
  /\ Len(lib.finals) = 3
  /\ lib.finals[3].forwardGain > 0

\* non-negative entries, every row sum and every column sum exactly 1
IsDoublyStochastic(M) ==
  /\ \A x \in Entries(M) : ~IsNaN(x) /\ x >= 0
  /\ \A i \in 1..Len(M) : RowSums(M)[i] = ONE /\ ColSums(M)[i] = ONE

AllLayersDoublyStochastic ==
  \A l \in 1..Len(lib.Hs) : IsDoublyStochastic(lib.Hs[l])

\* every product and sum of the accumulation so far is exact
AllLayersQuarters ==
  \A l \in 1..Len(lib.Hs) : \A x \in Entries(lib.Hs[l]) : x % (ONE \div 4) = 0

\* C21 as stated: with doubly stochastic layers the composite has, at every
\* depth, non-negative entries, forward and backward gain 1 and row and
\* column sum deviations 0.
CompositeExactlyDoublyStochastic ==
  AllLayersDoublyStochastic =>
    \A l \in 1..Len(lib.composite) :
      /\ lib.composite[l].minEntry >= 0
      /\ lib.composite[l].forwardGain = ONE
      /\ lib.composite[l].backwardGain = ONE
      /\ lib.composite[l].rowSumMaxDev = 0
      /\ lib.composite[l].colSumMaxDev = 0

\* the rounding a composite of l layers can have accumulated: one unit per
\* product, n * n products per row or column sum and layer
RoundingBound(l, n) == l * n * n

\* C21: with doubly stochastic layers the composite has, at every depth,
\* non-negative entries and row and column sums equal to 1 up to the
\* rounding of the products, so that the gains differ from 1 and the
\* deviations from 0 by no more than the accumulated rounding; they are
\* exactly 1 and 0 when every product is exact.
CompositeDoublyStochasticUpToRounding ==
  AllLayersDoublyStochastic =>
    \A l \in 1..Len(lib.composite) :
      /\ lib.composite[l].minEntry >= 0
      /\ Abs(lib.composite[l].forwardGain - ONE) <= RoundingBound(l, lib.n)
      /\ Abs(lib.composite[l].backwardGain - ONE) <= RoundingBound(l, lib.n)
      /\ lib.composite[l].rowSumMaxDev <= RoundingBound(l, lib.n)
      /\ lib.composite[l].colSumMaxDev <= RoundingBound(l, lib.n)
      /\ AllLayersQuarters =>
           /\ lib.composite[l].forwardGain = ONE
           /\ lib.composite[l].backwardGain = ONE
           /\ lib.composite[l].rowSumMaxDev = 0
           /\ lib.composite[l].colSumMaxDev = 0

\* three doubly stochastic 3 x 3 layers composed, the products rounded
RoundedComposite ==
  /\ lib.n = 3 /\ lib.layerIdx = 3
  /\ AllLayersDoublyStochastic
  /\ ~AllLayersQuarters
  /\ lib.composite[3].rowSumMaxDev > 0
  /\ \E x \in Entries(lib.compositeMatrix) : 0 < x /\ x < ONE

\* C22: distanceFromUniform is exactly 0 on the n x n matrix whose every
\* entry is 1 / n, and is at least 0 on every matrix of numbers (and 0 only
\* where every entry is within rounding of 1 / n).
DistanceFromUniformZeroOnUniform ==
  (lib # None /\ lib.fn = "distanceFromUniform") =>
    /\ ~IsNaN(lib.out) /\ lib.out >= 0
    /\ lib.matrix = Uniform(Len(lib.matrix)) => lib.out = 0
    /\ lib.out = 0 => \A x \in Entries(lib.matrix) :
                        Abs(x - Uniform(Len(lib.matrix))[1][1]) < HalfBits

\* the distance of the 3 x 3 matrix of thirds has been computed
UniformThirdsMeasured ==
  /\ lib # None /\ lib.fn = "distanceFromUniform"
  /\ lib.matrix = Uniform(3)
  /\ lib.matrix[1][1] > 0 /\ lib.matrix[1][1] < ONE
  /\ lib.out = 0

TwentyRoundsRan ==
  /\ lib # None /\ lib.fn = "spectralNorm"
  /\ lib.pc = "done" /\ ~lib.early
  /\ lib.iter = 20 /\ lib.out > 0

\* what a pass of the scan pushed
Pushed == SubSeq(lib'.eigenvalues, Len(lib.eigenvalues) + 1, Len(lib'.eigenvalues))

\* the entry of the iterated matrix at row r, column c, counted from 0
Entry(r, c) == lib.A[r + 1][c + 1]

BlockTrace == Entry(lib.i, lib.i) + Entry(lib.i + 1, lib.i + 1)

BlockDeterminant ==
  FMul(Entry(lib.i, lib.i), Entry(lib.i + 1, lib.i + 1))
  - FMul(Entry(lib.i, lib.i + 1), Entry(lib.i + 1, lib.i))

BlockDiscriminant == FMul(BlockTrace, BlockTrace) - 4 * BlockDeterminant

HalfOf(x) == IF x < 0 THEN 0 - ((0 - x) \div 2) ELSE x \div 2

\* C24: a pass of the scan at index i emits the one real eigenvalue A[i][i]
\* when i is the last index or |A[i+1][i]| < 1e-10; otherwise it emits two
\* eigenvalues from the trace and determinant of the block at i, i + 1: the
\* reals (trace +/- sqrt(disc)) / 2 when the discriminant is >= 0, else a
\* pair with real parts trace / 2 and imaginary parts +/- sqrt(-disc) / 2.
ScanFollowsBlockRule ==
  [][(lib.pc \in {"qr", "scan"} /\ lib'.pc = "scan") =>
       /\ lib.pc = "qr" => lib.i = 0
       /\ IF lib.i = lib.n - 1 \/ Entry(lib.i + 1, lib.i) = 0
          THEN /\ Pushed = <<[real |-> Entry(lib.i, lib.i), imag |-> 0]>>
               /\ lib'.i = lib.i + 1
          ELSE /\ Len(Pushed) = 2
               /\ lib'.i = lib.i + 2
               /\ IF BlockDiscriminant >= 0
                  THEN /\ Pushed[1].imag = 0 /\ Pushed[2].imag = 0
                       /\ Pushed[1].real
                            = HalfOf(BlockTrace + NSqrt(BlockDiscriminant))
                       /\ Pushed[2].real
                            = HalfOf(BlockTrace - NSqrt(BlockDiscriminant))
                  ELSE /\ Pushed[1].real = HalfOf(BlockTrace)
                       /\ Pushed[2].real = HalfOf(BlockTrace)
                       /\ Pushed[1].imag = HalfOf(NSqrt(0 - BlockDiscriminant))
                       /\ Pushed[2].imag = 0 - Pushed[1].imag
                       /\ Pushed[1].imag > 0]_vars

\* a 2 x 2 call has returned whose block had a non-negative discriminant and
\* gave two different real eigenvalues
RealPairFromBlock ==
  /\ EigReturned
  /\ lib.n = 2
  /\ lib.A[2][1] # 0
  /\ lib.scanned[1].imag = 0 /\ lib.scanned[2].imag = 0
  /\ lib.scanned[1].real > lib.scanned[2].real

\* in the factorization of the last round, every column of Q whose residual
\* norm R[j][j] was at most 1e-10 is the unit vector e_j
VanishedColumnsAreUnitVectors ==
  lib.iter >= 1 =>
    \A j \in 1..lib.n :
      (lib.R[j][j] = 0) =>
        Column(lib.Q, j) = Tab(lib.n, LAMBDA i : IF i = j THEN ONE ELSE 0)

\* the scan starts only after round 100, whatever the matrix has become
NoEarlyExit ==
  /\ lib.iter <= 100
  /\ lib.pc = "qr" /\ lib.iter < 100 => lib.i = 0 /\ lib.eigenvalues = <<>>
  /\ lib.pc \in {"scan", "done"} => lib.iter = 100

\* C25: eigenvaluesSorted terminates, after exactly 100 QR rounds whatever the
\* input and whether or not the iteration has converged, and in each QR
\* factorization a column with residual norm at most 1e-10 is replaced in Q
\* by the unit vector e_j instead of being divided by that norm.
HundredRoundsThenReturn ==
  /\ [](NoEarlyExit /\ VanishedColumnsAreUnitVectors)
  /\ <>(lib.pc = "done" /\ lib.iter = 100)

\* a call on a matrix that is not zero has returned after 100 rounds, the last
\* of which replaced a vanished column
VanishedColumnReplaced ==
  /\ EigReturned
  /\ lib.iter = 100
  /\ \E x \in Entries(lib.matrix) : x # 0
  /\ \E j \in 1..lib.n : lib.R[j][j] = 0 /\ lib.Q[j][j] = ONE

(***************************************************************************)
(* Properties of the page.                                                 *)
(***************************************************************************)

\* every timer that runSimulation started has fired
AllTimersFired == dial.timers = <<>>

\* the newest pending timer computes for the config the page shows
NewestTimerIsCurrent ==
  ~AllTimersFired => dial.timers[Len(dial.timers)] = dial.config

ResultsAreCurrent ==
  AllTimersFired => /\ dial.results = ComparisonOf(dial.config)
                    /\ ~dial.isComputing

\* the step in which the last pending timer fires
LastTimerFires == ~AllTimersFired /\ dial'.timers = <<>>

\* C26: every config change starts one timer that computes for the config
\* it captured, and the timers fire in the order they were started; once all
\* of them have fired, results are runComparison of the current config (an
\* older config's results never replace a newer one's), isComputing is
\* false, and the last timer set selectedLayer to that config's depth - 1.
SimulationFollowsConfig ==
  /\ [](NewestTimerIsCurrent /\ ResultsAreCurrent)
  /\ [][LastTimerFires => dial'.selectedLayer = dial'.config.depth - 1]_vars

\* the deep preset was chosen and the seed randomized, the timers of both
\* changes have fired, and the page shows the results of the last one
OverlappingTimersFired ==
  /\ AllTimersFired
  /\ dial.config = [depth |-> 200, n |-> 4, sinkhornIters |-> 20, seed |-> 7]
  /\ dial.results = ComparisonOf(dial.config)
  /\ dial.selectedLayer = 199

\* the page was opened with the link as it was copied
LinkOpened == lib # None /\ lib.pc = "opened"

\* C27: opening the link made by configToUrl(c) gives back exactly c,
\* whatever the default config is; a field takes the default's value only
\* when its parameter is absent or is not a number.
SharedLinkRestoresConfig == LinkOpened => lib.parsed = lib.config

\* the same for configs with no field equal to 0
SharedLinkRestoresNonZero ==
  (LinkOpened /\ lib.config.sinkhornIters # 0 /\ lib.config.seed # 0)
    => lib.parsed = lib.config

\* the HC Explosion preset with the page's defaults: sinkhornIters = 0
ExplosionLinkOpened ==
  /\ LinkOpened
  /\ lib.config = PRESETS[2]
  /\ lib.defaultConfig = DEFAULT_CONFIG

\* a step of a running playback that changes config or stops it: a tick
TickRule ==
  (dial.isPlaying /\ (dial'.config # dial.config \/ ~dial'.isPlaying)) =>
    IF dial.config.sinkhornIters >= 30
    THEN /\ dial'.config = dial.config
         /\ ~dial'.isPlaying
         /\ dial.config.sinkhornIters = 30
    ELSE /\ dial'.config = [dial.config EXCEPT !.sinkhornIters = @ + 1]
         /\ dial'.isPlaying

\* pressing play
PlayRule ==
  (~dial.isPlaying /\ dial'.isPlaying) =>
    dial'.config = [dial.config EXCEPT !.sinkhornIters =
                      IF @ >= 30 THEN 0 ELSE @]

PlaybackStopped == ~dial.isPlaying /\ dial.config.sinkhornIters = 30

ArrowDelta ==
  [ArrowLeft |-> 0 - 1, ArrowRight |-> 1, ArrowDown |-> 0 - 5, ArrowUp |-> 5]

Clamped(x) == IF x < 0 THEN 0 ELSE IF x > 30 THEN 30 ELSE x

\* a keydown of an arrow key outside an input moves sinkhornIters by the
\* key's amount, stops at 0 and 30, and leaves the other fields alone
ArrowRule ==
  \A key \in DOMAIN ArrowDelta :
    KeyDown(key, FALSE) =>
      dial'.config = [dial.config EXCEPT !.sinkhornIters =
                        Clamped(@ + ArrowDelta[key])]

\* C29: from a config with sinkhornIters in 0..30, no sequence of keyboard
\* shortcuts, slider moves, preset clicks, play toggles and playback ticks
\* takes sinkhornIters out of the integers 0..30; the arrow keys stop at
\* the bounds and change no other field of config.
SinkhornItersStaysInRange ==
  /\ [](dial.config.sinkhornIters \in 0..30)
  /\ [][ArrowRule]_vars

\* two changes in a row that left config at the upper bound, as ArrowRight
\* and ArrowUp do at 30
HeldAtUpperBound ==
  /\ dial.config.sinkhornIters = 30
  /\ Len(dial.timers) = 2
  /\ dial.timers[1] = dial.timers[2]
  /\ dial.isPlaying

\* the tour becomes active in this step
TourActivated == ~tour.isTourActive /\ tour'.isTourActive

StepInRange == tour.currentStep \in 0..(Len(TOUR_STEPS) - 1)

\* Back (ArrowLeft) at the first step changes nothing; Next at the last
\* step ends the tour through onComplete and does not advance
TourEdges ==
  /\ (tour.isTourActive /\ tour.currentStep = 0)
       => handlePrev(tour) = tour
  /\ (tour.isTourActive /\ tour.currentStep = Len(TOUR_STEPS) - 1)
       => handleNext(tour) = [tour EXCEPT !.isTourActive = FALSE,
                                          !.completed = TRUE]

\* C30: every activation of the tour, the auto-start and every click on the
\* Tour button, also after the tour was finished or skipped, begins at step
\* 0; the step index stays within 0 .. TOUR_STEPS.length - 1, Back at step
\* 0 does nothing and Next at the last step calls onComplete.
TourStartsAtFirstStep ==
  /\ [](StepInRange /\ TourEdges)
  /\ [][TourActivated => tour'.currentStep = 0]_vars

\* the part of C30 that does not depend on where an activation begins
TourStaysInRange == StepInRange /\ TourEdges

\* the tour was finished and is shown again: it shows its last step
TourReopenedAtLastStep ==
  /\ tour.isTourActive
  /\ tour.completed
  /\ tour.currentStep = Len(TOUR_STEPS) - 1

====
